---------------------------- MODULE Spec2Model ----------------------------
(***************************************************************************)
(* Model of the MCP client runtime of zeroclaw (src/src/tools/mcp) and of   *)
(* the commands that edit its configuration.                               *)
(*                                                                         *)
(* Several state machines share this module, each with its own            *)
(* specification:                                                          *)
(*   SpecStdio    one StdioMcpClient (client.rs) used by concurrent tasks, *)
(*                together with the child process it spawns;               *)
(*   SpecClient   one client of either transport: the StdioMcpClient       *)
(*                above or an HttpSseMcpClient (client.rs);                *)
(*   SpecDiscover discover_tools / register_server (mod.rs, registry.rs),  *)
(*                and SpecDiscoverLive, the same with weak fairness;       *)
(*   SpecExec     McpTool::execute (tool.rs);                              *)
(*   SpecStdioZero  SpecStdio for a client built with timeout_secs = 0;    *)
(*   SpecStdioLive  a registered StdioMcpClient under the fair scheduling   *)
(*                of tokio's mutexes;                                      *)
(*   SpecClassify what send_request makes of one response (client.rs);     *)
(*   SpecCli      the server list of the configuration under mcp add,      *)
(*                mcp remove (src/mcp/mod.rs) and the importer             *)
(*                (config/mcp_import.rs).                                  *)
(* The variables of the machines a specification does not run stay at      *)
(* their initial values.                                                   *)
(***************************************************************************)
EXTENDS Integers, Sequences, FiniteSets, TLC

(***************************************************************************)
(* Bounds of the model.                                                    *)
(***************************************************************************)
MaxRequestId == 5      \* requests one stdio client sends in a run
MaxPid == 2            \* child processes one stdio client spawns in a run

Callers == {1, 2}      \* the tasks that call into one stdio client
Pids == 1..MaxPid
Ids == 1..MaxRequestId

None == 0              \* Option::None of a handle
Free == 0              \* a tokio Mutex nobody holds

VARIABLES
    \* ---- StdioMcpClient (client.rs:42-59) ----
    child,        \* Option<Child>: pid of the child handle, or None
    stdin,        \* Option<ChildStdin>: pid whose stdin the handle writes, or None
    stdout,       \* Option<BufReader<ChildStdout>>: pid whose stdout it reads, or None
    request_id,   \* the u64 request counter
    capabilities, \* a ServerCapabilities value is cached
    childLock,    \* holder of the child mutex, or Free
    stdinLock,    \* holder of the stdin mutex, or Free
    stdoutLock,   \* holder of the stdout mutex, or Free
    \* ---- the tasks calling the client ----
    pc,           \* position of each task
    op,           \* operation the task runs
    stage,        \* initialize: 0 = its own ensure, 1 = initialize request, 2 = notification
    reqId,        \* id the task's current send_request took
    consumed,     \* lines the task's current send_request has read from stdout
    got,          \* id of the response line the task's current send_request read, or 0
    result,       \* what the task's operation returned
    sres,         \* what the task's last send_request returned
    reg,          \* where register_server stands with this client
    dropped,      \* the client value has been dropped
    \* ---- the operating system and the child process ----
    alive,        \* pids of running child processes
    nextPid,      \* pids handed out so far
    session,      \* pid at the far end of the pipes the client last opened, or None
    partial,      \* tokens on the child's stdin since the last newline
    garbled,      \* the child has received a line that is not one request
    pending,      \* request ids the child has received and not answered
    outbox,       \* response lines on the child's stdout, not yet read
    \* ---- history ----
    sentLog,      \* ids of the request lines in the order they were written
    sentMethods,  \* the methods of those request lines, in the same order
    assignedIds,  \* the ids send_request has taken from request_id, in order
    poisonedAt,   \* value of request_id when a send_request of this session timed out, or 0
    readAfterTimeout \* a request newer than that timeout has read a line of the session

stdioVars == << child, stdin, stdout, request_id, capabilities, childLock,
                stdinLock, stdoutLock, pc, op, stage, reqId, consumed, got, result,
                sres, reg, dropped, alive, nextPid, session, partial, garbled,
                pending, outbox, sentLog, sentMethods, assignedIds,
                poisonedAt,
                readAfterTimeout >>

VARIABLES
    \* ---- McpTool (tool.rs:13-22) and one call of execute ----
    xserver,      \* server_name of the adapter
    xtool,        \* definition.name of the adapter
    xpc,          \* position of execute
    xargs,        \* the args value execute was called with
    xlog,         \* calls execute has made to the security policy and the client
    xret          \* what execute returned

execVars == << xserver, xtool, xpc, xargs, xlog, xret >>

VARIABLES
    \* ---- discover_tools and register_server (mod.rs, registry.rs) ----
    enabled,      \* config.enabled
    servers,      \* config.servers
    dpc,          \* position of discover_tools
    di,           \* index in config.servers of the server being registered
    attempts,     \* register_server's retry counter
    all_tools,    \* the adapters collected so far
    dret,         \* what discover_tools returned
    dio,          \* clients built, processes spawned, requests sent, secrets decrypted, sleeps
    dspawned,     \* servers whose client has spawned a child process
    regOutcome,   \* what register_server returned for each server
    regTools,     \* the tool names each server listed
    initCalls,    \* client.initialize() calls register_server made for each server
    regLog        \* what register_server did for each server, in order

discVars == << enabled, servers, dpc, di, attempts, all_tools, dret, dio,
               dspawned, regOutcome, regTools, initCalls, regLog >>

VARIABLES
    \* ---- the client register_server built, and HttpSseMcpClient (client.rs:281-288) ----
    transport,    \* which client it is: "stdio" or "http"
    hpc,          \* position of the task calling the http client
    hop,          \* operation the task runs
    hres,         \* what the operation returned
    hsres,        \* what its send_request returned
    hcaps,        \* a ServerCapabilities value is cached
    hsent         \* methods of the requests POSTed so far

httpVars == << transport, hpc, hop, hres, hsres, hcaps, hsent >>

VARIABLES
    \* ---- the tail of send_request: one response and what becomes of it ----
    cvia,         \* the client that received it: "stdio", "http", or "none"
    cresp,        \* the line read from stdout, or the HTTP response
    cout          \* what send_request returned for it

classVars == << cvia, cresp, cout >>

VARIABLE
    \* ---- StdioMcpClient, fixed at construction (client.rs:68-76) ----
    timeout_secs  \* the deadline send_request gives its read, in seconds

VARIABLES
    \* ---- the configuration the mcp commands and the importer work on ----
    mcp_servers,    \* the names of config.mcp.servers, in order
    cmd,            \* the command that ran last, with its arguments
    servers_before, \* mcp_servers when that command started
    cmd_ret         \* what it returned: "Ok" or "Err"

cliVars == << mcp_servers, cmd, servers_before, cmd_ret >>

vars == << stdioVars, execVars, discVars, httpVars, classVars, timeout_secs,
           cliVars >>

(***************************************************************************)
(* The stdio client.                                                       *)
(***************************************************************************)
NoResult == "None"

\* A response as serde sees it (protocol.rs:15-24). json says whether the
\* text deserializes into a JsonRpcResponse at all; error and result are
\* Option fields, None when the member is absent or null. An error object
\* is written as its message, a result as "value", or as "badvalue" when
\* the caller's type will reject it.
ErrorMessages == {"boom", "denied"}
ErrorFields == {"absent", "null"} \cup ErrorMessages
ResultFields == {"absent", "null", "value", "badvalue"}
Responses == [json : BOOLEAN, error : ErrorFields, result : ResultFields]

\* What send_request returns: the McpError variant with its message, or
\* "Ok" with the result value.
Outcome(kind, message, value) ==
    [kind |-> kind, message |-> message, value |-> value]

\* The classification with the result looked at before the error.
ClassifyResponseResultFirst(r) ==
    IF ~r.json
    THEN Outcome("ParseError", "invalid JSON", "none")
    ELSE IF r.result \notin {"absent", "null"}
    THEN Outcome("Ok", "", r.result)
    ELSE IF r.error \in ErrorMessages
    THEN Outcome("ServerError", r.error, "none")
    ELSE Outcome("ParseError", "Response missing result field", "none")

\* How send_request classifies a response (client.rs:171-183, 342-356):
\* serde_json::from_str, then response.error, then response.result.
ClassifyResponse(r) ==
    IF ~r.json
    THEN Outcome("ParseError", "invalid JSON", "none")
    ELSE IF r.error \in ErrorMessages
    THEN Outcome("ServerError", r.error, "none")
    ELSE IF r.result \in {"absent", "null"}
    THEN Outcome("ParseError", "Response missing result field", "none")
    ELSE Outcome("Ok", "", r.result)

\* The outcome as the operations see it: "BadShape" is an Ok value that
\* serde_json::from_value will reject.
OutcomeKind(out) ==
    IF out.kind = "Ok" /\ out.value = "badvalue" THEN "BadShape" ELSE out.kind

\* The response lines the child writes. The model keeps the id of a line on
\* the stream and settles what else it holds when the line is read.
LineKinds == {"result", "badresult", "error", "errorresult", "noresult",
              "garbage"}

LineOf(kind) ==
    CASE kind = "result" ->
            [json |-> TRUE, error |-> "absent", result |-> "value"]
      [] kind = "badresult" ->
            [json |-> TRUE, error |-> "absent", result |-> "badvalue"]
      [] kind = "error" ->
            [json |-> TRUE, error |-> "boom", result |-> "absent"]
      [] kind = "errorresult" ->
            [json |-> TRUE, error |-> "boom", result |-> "value"]
      [] kind = "noresult" ->
            [json |-> TRUE, error |-> "null", result |-> "absent"]
      [] OTHER ->
            [json |-> FALSE, error |-> "absent", result |-> "absent"]

StdioInit ==
    /\ child = None /\ stdin = None /\ stdout = None
    /\ request_id = 0
    /\ capabilities = FALSE
    /\ childLock = Free /\ stdinLock = Free /\ stdoutLock = Free
    /\ pc = [c \in Callers |-> "idle"]
    /\ op = [c \in Callers |-> "none"]
    /\ stage = [c \in Callers |-> 0]
    /\ reqId = [c \in Callers |-> 0]
    /\ consumed = [c \in Callers |-> 0]
    /\ got = [c \in Callers |-> 0]
    /\ result = [c \in Callers |-> NoResult]
    /\ sres = [c \in Callers |-> "none"]
    /\ reg = "init"
    /\ dropped = FALSE
    /\ alive = {}
    /\ nextPid = 0
    /\ session = None
    /\ partial = << >>
    /\ garbled = FALSE
    /\ pending = {}
    /\ outbox = << >>
    /\ sentLog = << >>
    /\ sentMethods = << >>
    /\ assignedIds = << >>
    /\ poisonedAt = 0
    /\ readAfterTimeout = FALSE

\* The client as register_server hands it to the adapters: initialize, its
\* notification and tools/list have been sent with ids 1 to 3 and answered
\* by the child, and no task is in the client.
StdioRegistered ==
    /\ child = 1 /\ stdin = 1 /\ stdout = 1
    /\ request_id = 3
    /\ capabilities = TRUE
    /\ childLock = Free /\ stdinLock = Free /\ stdoutLock = Free
    /\ pc = [c \in Callers |-> "idle"]
    /\ op = [c \in Callers |-> "none"]
    /\ stage = [c \in Callers |-> 0]
    /\ reqId = [c \in Callers |-> 0]
    /\ consumed = [c \in Callers |-> 0]
    /\ got = [c \in Callers |-> 0]
    /\ result = [c \in Callers |-> NoResult]
    /\ sres = [c \in Callers |-> "none"]
    /\ reg = "shared"
    /\ dropped = FALSE
    /\ alive = {1}
    /\ nextPid = 1
    /\ session = 1
    /\ partial = << >>
    /\ garbled = FALSE
    /\ pending = {}
    /\ outbox = << >>
    /\ sentLog = << 1, 2, 3 >>
    /\ sentMethods = << "initialize", "notifications/initialized", "tools/list" >>
    /\ assignedIds = << 1, 2, 3 >>
    /\ poisonedAt = 0
    /\ readAfterTimeout = FALSE

\* Tasks that have entered send_request and not yet taken their id.
Unassigned ==
    Cardinality({c \in Callers :
        pc[c] \in {"ensure", "ens_stdin", "ens_stdout", "assign_id"}})

\* What an operation returns with health_check passing the error on like
\* the other operations.
OpResultPropagating(o, k) == IF k = "BadShape" THEN "ParseError" ELSE k

\* What an operation does with the value its send_request returned.
\* k is send_request's outcome: "Ok", "BadShape" for an Ok value that
\* serde_json::from_value rejects, or the McpError variant.
OpResult(o, k) ==
    IF o = "health_check"
    THEN IF k \in {"Ok", "BadShape"} THEN "Healthy" ELSE "Unhealthy"
    ELSE IF k = "BadShape" THEN "ParseError" ELSE k

\* initialize sends notifications/initialized whatever its request returned.
SendsInitializedAlways(o, s, k) == o = "initialize" /\ s = 1

\* initialize goes on to notifications/initialized when its request returned
\* a result that parsed as ServerCapabilities (client.rs:218-225).
SendsInitialized(o, s, k) == o = "initialize" /\ s = 1 /\ k = "Ok"

\* send_request (or ensure_process_running) of task c returns k.
Complete(c, k) ==
    /\ sres' = [sres EXCEPT ![c] = k]
    /\ IF SendsInitialized(op[c], stage[c], k)
       THEN \* capabilities parsed: go on to the initialized notification
            /\ stage' = [stage EXCEPT ![c] = 2]
            /\ pc' = [pc EXCEPT ![c] = "ensure"]
            /\ result' = [result EXCEPT ![c] = "Ok"]
            /\ UNCHANGED capabilities
       ELSE IF op[c] = "initialize" /\ stage[c] = 2
       THEN \* let _ = send_request(..): the outcome is ignored
            /\ capabilities' = TRUE
            /\ pc' = [pc EXCEPT ![c] = "done"]
            /\ UNCHANGED << stage, result >>
       ELSE /\ pc' = [pc EXCEPT ![c] = "done"]
            /\ result' = [result EXCEPT ![c] = OpResult(op[c], k)]
            /\ UNCHANGED << stage, capabilities >>

\* ensure_process_running has returned Ok: initialize goes on to its
\* send_request, send_request goes on to take an id.
AfterEnsure(c) ==
    IF stage[c] = 0
    THEN /\ stage' = [stage EXCEPT ![c] = 1]
         /\ pc' = [pc EXCEPT ![c] = "ensure"]
    ELSE /\ pc' = [pc EXCEPT ![c] = "assign_id"]
         /\ UNCHANGED stage


handles == << child, stdin, stdout >>
locks == << childLock, stdinLock, stdoutLock >>
procs == << alive, nextPid >>
pipe == << session, partial, garbled, pending, outbox >>
hist == << sentLog, sentMethods, assignedIds, poisonedAt, readAfterTimeout >>

\* Operations a task may start. register_server owns the client until it has
\* listed the tools: it runs initialize (again after a failure) and then
\* list_tools once. The adapters that share the client afterwards run
\* call_tool; health_check and shutdown are the rest of the McpClient trait.
CanBegin(c, o) ==
    CASE reg = "init" -> c = 1 /\ o = "initialize"
      [] reg = "list" -> c = 1 /\ o = "list_tools"
      [] reg = "shared" -> o \in {"call_tool", "health_check", "shutdown"}
      [] OTHER -> FALSE

\* Request ids an operation takes at most.
IdsNeeded(o) == IF o = "initialize" THEN 2 ELSE IF o = "shutdown" THEN 0 ELSE 1

Begin(c, o) ==
    /\ UNCHANGED << execVars, discVars, httpVars, classVars, timeout_secs, cliVars >>
    /\ transport = "stdio"
    /\ ~dropped
    /\ pc[c] = "idle"
    /\ CanBegin(c, o)
    /\ request_id + Unassigned + IdsNeeded(o) <= MaxRequestId
    /\ op' = [op EXCEPT ![c] = o]
    /\ stage' = [stage EXCEPT ![c] = IF o = "initialize" THEN 0 ELSE 1]
    /\ pc' = [pc EXCEPT ![c] = IF o = "shutdown" THEN "sd_child" ELSE "ensure"]
    /\ UNCHANGED << handles, locks, procs, pipe, hist, request_id, capabilities,
                    reqId, consumed, got, result, sres, reg, dropped >>

\* The check with a look at whether the process of the handle still runs.
ChildPresentAndRunning(ch) == ch # None /\ ch \in alive

\* if child_guard.is_some() { return Ok(()) } (client.rs:87-89): the handle
\* is looked at, the process is not.
ChildPresent(ch) == ch # None

\* ensure_process_running up to the first await after the spawn.
EnsureChild(c) ==
    /\ UNCHANGED << execVars, discVars, httpVars, classVars, timeout_secs, cliVars >>
    /\ pc[c] = "ensure"
    /\ childLock = Free
    /\ \/ /\ ChildPresent(child)
          /\ AfterEnsure(c)
          /\ UNCHANGED << handles, locks, procs, pipe, hist, result, sres,
                          capabilities >>
       \/ \* cmd.spawn() fails
          /\ ~ChildPresent(child)
          /\ Complete(c, "ProcessSpawn")
          /\ UNCHANGED << handles, locks, procs, pipe, hist >>
       \/ \* the spawn succeeds and a stream handle is missing: the Child
          \* value is dropped by the early return, which does not kill it
          /\ ~ChildPresent(child)
          /\ nextPid < MaxPid
          /\ nextPid' = nextPid + 1
          /\ alive' = alive \cup {nextPid + 1}
          /\ Complete(c, "ProcessExit")
          /\ UNCHANGED << handles, locks, pipe, hist >>
       \/ \* the spawn succeeds: *child_guard = Some(child)
          /\ ~ChildPresent(child)
          /\ nextPid < MaxPid
          /\ nextPid' = nextPid + 1
          /\ alive' = alive \cup {nextPid + 1}
          /\ child' = nextPid + 1
          /\ childLock' = c
          /\ session' = nextPid + 1
          /\ partial' = << >> /\ pending' = {} /\ outbox' = << >>
          /\ poisonedAt' = 0
          /\ pc' = [pc EXCEPT ![c] = "ens_stdin"]
          /\ UNCHANGED << stdin, stdout, stdinLock, stdoutLock, garbled, stage,
                          result, sres, capabilities, sentLog, assignedIds, sentMethods, readAfterTimeout >>
    /\ UNCHANGED << request_id, op, reqId, consumed, got, reg, dropped >>

\* *self.stdin.lock().await = Some(stdin)
EnsureStdin(c) ==
    /\ UNCHANGED << execVars, discVars, httpVars, classVars, timeout_secs, cliVars >>
    /\ pc[c] = "ens_stdin"
    /\ stdinLock = Free
    /\ stdin' = child
    /\ pc' = [pc EXCEPT ![c] = "ens_stdout"]
    /\ UNCHANGED << child, stdout, locks, procs, pipe, hist, request_id,
                    capabilities, op, stage, reqId, consumed, got, result, sres, reg,
                    dropped >>

\* *self.stdout.lock().await = Some(BufReader::new(stdout)); the child guard
\* is released on return.
EnsureStdout(c) ==
    /\ UNCHANGED << execVars, discVars, httpVars, classVars, timeout_secs, cliVars >>
    /\ pc[c] = "ens_stdout"
    /\ stdoutLock = Free
    /\ stdout' = child
    /\ childLock' = Free
    /\ AfterEnsure(c)
    /\ UNCHANGED << child, stdin, stdinLock, stdoutLock, procs, pipe, hist,
                    request_id, capabilities, op, reqId, consumed, got, result, sres,
                    reg, dropped >>

\* The id block of send_request: lock request_id, add one, take the value.
AssignId(c) ==
    /\ UNCHANGED << execVars, discVars, httpVars, classVars, timeout_secs, cliVars >>
    /\ pc[c] = "assign_id"
    /\ request_id' = request_id + 1
    /\ reqId' = [reqId EXCEPT ![c] = request_id + 1]
    /\ consumed' = [consumed EXCEPT ![c] = 0]
    /\ got' = [got EXCEPT ![c] = 0]
    /\ assignedIds' = Append(assignedIds, request_id + 1)
    /\ pc' = [pc EXCEPT ![c] = "lock_stdin"]
    /\ UNCHANGED << handles, locks, procs, pipe, sentLog, sentMethods,
                    poisonedAt, readAfterTimeout, capabilities, op, stage,
                    result, sres, reg, dropped >>


\* A guard handed out whoever holds the mutex.
StdinGuardAlways(l) == TRUE

\* self.stdin.lock().await (client.rs:145) returns when no other task holds
\* the guard of the stdin mutex.
StdinGuardFree(l) == l = Free

\* let mut stdin = self.stdin.lock().await, and the as_mut() check.
LockStdin(c) ==
    /\ UNCHANGED << execVars, discVars, httpVars, classVars, timeout_secs, cliVars >>
    /\ pc[c] = "lock_stdin"
    /\ StdinGuardFree(stdinLock)
    /\ IF stdin = None
       THEN /\ Complete(c, "ConnectionLost")
            /\ UNCHANGED stdinLock
       ELSE /\ stdinLock' = c
            /\ pc' = [pc EXCEPT ![c] = "write_bytes"]
            /\ UNCHANGED << stage, result, sres, capabilities >>
    /\ UNCHANGED << handles, childLock, stdoutLock, procs, pipe, hist,
                    request_id, op, reqId, consumed, got, reg, dropped >>

\* The method of the request an operation sends: initialize sends
\* "initialize" and then, through the same send_request,
\* "notifications/initialized".
Method(o, s) ==
    CASE o = "initialize" /\ s = 2 -> "notifications/initialized"
      [] o = "initialize" -> "initialize"
      [] o = "list_tools" -> "tools/list"
      [] o = "call_tool" -> "tools/call"
      [] OTHER -> "ping"

\* A pipe that takes every write.
PipeOpenAlways(p) == TRUE

\* A write into the pipe fails when its reading end is gone.
PipeOpen(p) == p \in alive

\* write_all(request_str.as_bytes())
WriteBytes(c) ==
    /\ UNCHANGED << execVars, discVars, httpVars, classVars, timeout_secs, cliVars >>
    /\ pc[c] = "write_bytes"
    /\ IF PipeOpen(stdin)
       THEN /\ partial' = Append(partial, reqId[c])
            /\ sentLog' = Append(sentLog, reqId[c])
            /\ sentMethods' = Append(sentMethods, Method(op[c], stage[c]))
            /\ pc' = [pc EXCEPT ![c] = "write_nl"]
            /\ UNCHANGED << stdinLock, stage, result, sres, capabilities >>
       ELSE /\ stdinLock' = Free
            /\ Complete(c, "IoError")
            /\ UNCHANGED << partial, sentLog, sentMethods >>
    /\ UNCHANGED << handles, childLock, stdoutLock, procs, session, garbled,
                    pending, outbox, assignedIds, poisonedAt, readAfterTimeout,
                    request_id, op, reqId, consumed, got, reg, dropped >>

\* write_all(b"\n"): the line is complete and the child can take it.
WriteNewline(c) ==
    /\ UNCHANGED << execVars, discVars, httpVars, classVars, timeout_secs, cliVars >>
    /\ pc[c] = "write_nl"
    /\ IF PipeOpen(stdin)
       THEN /\ partial' = << >>
            /\ IF Len(partial) = 1
               THEN pending' = pending \cup {partial[1]} /\ UNCHANGED garbled
               ELSE garbled' = TRUE /\ UNCHANGED pending
            /\ pc' = [pc EXCEPT ![c] = "flush"]
            /\ UNCHANGED << stdinLock, stage, result, sres, capabilities >>
       ELSE /\ stdinLock' = Free
            /\ Complete(c, "IoError")
            /\ UNCHANGED << partial, pending, garbled >>
    /\ UNCHANGED << handles, childLock, stdoutLock, procs, session, outbox,
                    hist, request_id, op, reqId, consumed, got, reg, dropped >>

\* The stdin lock after the write with the guard never let go.
StdinAfterFlushKept(c) == c

\* drop(stdin) (client.rs:162): the stdin lock is free again.
StdinAfterFlush(c) == Free

\* flush() of a ChildStdin has nothing to do; drop(stdin) releases the lock.
Flush(c) ==
    /\ UNCHANGED << execVars, discVars, httpVars, classVars, timeout_secs, cliVars >>
    /\ pc[c] = "flush"
    /\ stdinLock' = StdinAfterFlush(c)
    /\ pc' = [pc EXCEPT ![c] = "read"]
    /\ UNCHANGED << handles, childLock, stdoutLock, procs, pipe, hist,
                    request_id, capabilities, op, stage, reqId, consumed, got,
                    result, sres, reg, dropped >>

\* read_line: let mut stdout = self.stdout.lock().await, and the as_mut() check.
LockStdout(c) ==
    /\ UNCHANGED << execVars, discVars, httpVars, classVars, timeout_secs, cliVars >>
    /\ pc[c] = "read"
    /\ stdoutLock = Free
    /\ IF stdout = None
       THEN /\ Complete(c, "ConnectionLost")
            /\ UNCHANGED stdoutLock
       ELSE /\ stdoutLock' = c
            /\ pc' = [pc EXCEPT ![c] = "reading"]
            /\ UNCHANGED << stage, result, sres, capabilities >>
    /\ UNCHANGED << handles, childLock, stdinLock, procs, pipe, hist,
                    request_id, op, reqId, consumed, got, reg, dropped >>

\* How send_request classifies the line it read (client.rs:171-183).
Classify(kind) == OutcomeKind(ClassifyResponse(LineOf(kind)))

\* Lines one read_line call takes from the stream (a variant that skips
\* lines of other requests would take more).
ReadCountSkipStale(out, id) ==
    IF Len(out) >= 2 /\ out[1] # id THEN 2 ELSE 1

ReadCount(out, id) == 1

\* stdout_ref.read_line(&mut line) returns, and send_request classifies the
\* line. At end of stream read_line returns Ok(0) and the line is empty,
\* which serde_json::from_str rejects.
ReadLine(c) ==
    /\ UNCHANGED << execVars, discVars, httpVars, classVars, timeout_secs, cliVars >>
    /\ pc[c] = "reading"
    /\ stdoutLock' = Free
    /\ IF outbox # << >>
       THEN LET n == ReadCount(outbox, reqId[c])
            IN /\ outbox' = SubSeq(outbox, n + 1, Len(outbox))
               /\ consumed' = [consumed EXCEPT ![c] = @ + n]
               /\ got' = [got EXCEPT ![c] = outbox[n]]
               /\ readAfterTimeout' =
                    (readAfterTimeout \/ (poisonedAt # 0 /\ reqId[c] > poisonedAt))
               /\ \E kind \in LineKinds : Complete(c, Classify(kind))
       ELSE /\ stdout \notin alive
            /\ Complete(c, "ParseError")
            /\ UNCHANGED << outbox, consumed, got, readAfterTimeout >>
    /\ UNCHANGED << handles, childLock, stdinLock, procs, session, partial,
                    garbled, pending, sentLog, assignedIds, sentMethods, poisonedAt, request_id, op,
                    reqId, reg, dropped >>

\* The deadline of tokio::time::timeout passes before read_line has
\* returned: the read_line future is dropped, with the stdout guard if it
\* holds it.
Timeout(c) ==
    /\ UNCHANGED << execVars, discVars, httpVars, classVars, timeout_secs, cliVars >>
    /\ \/ pc[c] = "read" /\ stdoutLock # Free
       \/ pc[c] = "reading" /\ outbox = << >>
    /\ stdoutLock' = IF stdoutLock = c THEN Free ELSE stdoutLock
    /\ poisonedAt' = IF poisonedAt = 0 THEN request_id ELSE poisonedAt
    /\ Complete(c, "Timeout")
    /\ UNCHANGED << handles, childLock, stdinLock, procs, pipe, sentLog, assignedIds, sentMethods,
                    readAfterTimeout, request_id, op, reqId, consumed, got,
                    reg, dropped >>


\* The running processes after shutdown has taken the handle, with the kill
\* left out.
AfterKillSkipped(running, handle) == running

\* child.kill().await and child.wait().await: the process of the handle is
\* gone (client.rs:266-269).
AfterKill(running, handle) == running \ {handle}

\* The child guard as a temporary that is gone once the handle is taken.
ChildGuardTemporary(c) == Free

\* let mut child_guard = self.child.lock().await (client.rs:265): the guard
\* is a local of shutdown and is held until the function returns.
ChildGuardInShutdown(c) == c

\* shutdown: take the child handle under the child lock, kill it and wait
\* for it.
ShutdownChild(c) ==
    /\ UNCHANGED << execVars, discVars, httpVars, classVars, timeout_secs, cliVars >>
    /\ pc[c] = "sd_child"
    /\ childLock = Free
    /\ childLock' = ChildGuardInShutdown(c)
    /\ child' = None
    /\ alive' = AfterKill(alive, child)
    /\ pending' = IF child # None /\ child = session THEN {} ELSE pending
    /\ pc' = [pc EXCEPT ![c] = "sd_stdin"]
    /\ UNCHANGED << stdin, stdout, stdinLock, stdoutLock, nextPid, session,
                    partial, garbled, outbox, hist, request_id, capabilities,
                    op, stage, reqId, consumed, got, result, sres, reg, dropped >>

\* *self.stdin.lock().await = None
ShutdownStdin(c) ==
    /\ UNCHANGED << execVars, discVars, httpVars, classVars, timeout_secs, cliVars >>
    /\ pc[c] = "sd_stdin"
    /\ stdinLock = Free
    /\ stdin' = None
    /\ pc' = [pc EXCEPT ![c] = "sd_stdout"]
    /\ UNCHANGED << child, stdout, locks, procs, pipe, hist, request_id,
                    capabilities, op, stage, reqId, consumed, got, result, sres, reg,
                    dropped >>

\* The counter after a shutdown that starts the ids over.
RequestIdReset(id) == 0

\* shutdown leaves self.request_id as it is (client.rs:264-272).
RequestIdAfterShutdown(id) == id

\* *self.stdout.lock().await = None; Ok(()), and the child guard is released.
ShutdownStdout(c) ==
    /\ UNCHANGED << execVars, discVars, httpVars, classVars, timeout_secs, cliVars >>
    /\ pc[c] = "sd_stdout"
    /\ stdoutLock = Free
    /\ stdout' = None
    /\ childLock' = Free
    /\ pc' = [pc EXCEPT ![c] = "done"]
    /\ result' = [result EXCEPT ![c] = "Ok"]
    /\ request_id' = RequestIdAfterShutdown(request_id)
    /\ UNCHANGED sres
    /\ UNCHANGED << child, stdin, stdinLock, stdoutLock, procs, pipe, hist,
                    capabilities, op, stage, reqId, consumed, got, reg, dropped >>

\* The operation's value goes back to its caller. register_server moves on:
\* to list_tools after a successful initialize, to handing the client to the
\* adapters after a successful list_tools, to returning the error after a
\* failed one.
RegAfter(r, o, res) ==
    CASE r = "init" /\ o = "initialize" /\ res = "Ok" -> "list"
      [] r = "list" /\ res = "Ok" -> "shared"
      [] r = "list" -> "failed"
      [] OTHER -> r

Return(c) ==
    /\ UNCHANGED << execVars, discVars, httpVars, classVars, timeout_secs, cliVars >>
    /\ pc[c] = "done"
    /\ reg' = RegAfter(reg, op[c], result[c])
    /\ pc' = [pc EXCEPT ![c] = "idle"]
    /\ op' = [op EXCEPT ![c] = "none"]
    /\ stage' = [stage EXCEPT ![c] = 0]
    /\ reqId' = [reqId EXCEPT ![c] = 0]
    /\ consumed' = [consumed EXCEPT ![c] = 0]
    /\ got' = [got EXCEPT ![c] = 0]
    /\ result' = [result EXCEPT ![c] = NoResult]
    /\ sres' = [sres EXCEPT ![c] = "none"]
    /\ UNCHANGED << handles, locks, procs, pipe, hist, request_id,
                    capabilities, dropped >>

\* The last owner lets go of the client: its fields are dropped. The struct
\* has no Drop impl and the Command sets no kill_on_drop, so the tokio Child
\* handle is released without a kill; the pipe ends are closed.
DropClient ==
    /\ UNCHANGED << execVars, discVars, httpVars, classVars, timeout_secs, cliVars >>
    /\ transport = "stdio"
    /\ ~dropped
    /\ \A c \in Callers : pc[c] = "idle"
    /\ dropped' = TRUE
    /\ child' = None /\ stdin' = None /\ stdout' = None
    /\ UNCHANGED << locks, procs, pipe, hist, request_id, capabilities, pc, op,
                    stage, reqId, consumed, got, result, sres, reg >>

\* ---- the environment ----

\* tokio::time::timeout polls read_line and then the deadline. A deadline of
\* Duration::from_secs(0) has passed at that first poll, so a read that found
\* no line is cut off before the child can do anything more.
ZeroDeadlinePending ==
    timeout_secs = 0 /\ \E c \in Callers : pc[c] = "reading"

\* The child process at the far end of the pipes ends by itself.
ChildExit(p) ==
    /\ UNCHANGED << execVars, discVars, httpVars, classVars, timeout_secs, cliVars >>
    /\ ~ZeroDeadlinePending
    /\ p \in alive
    /\ p = session
    /\ alive' = alive \ {p}
    /\ pending' = {}
    /\ UNCHANGED << handles, locks, nextPid, session, partial, garbled, outbox,
                    hist, request_id, capabilities, pc, op, stage, reqId,
                    consumed, got, result, sres, reg, dropped >>

\* The server answers one of the requests it has received, in any order.
ServerReply(id) ==
    /\ UNCHANGED << execVars, discVars, httpVars, classVars, timeout_secs, cliVars >>
    /\ ~dropped
    /\ ~ZeroDeadlinePending
    /\ session \in alive
    /\ id \in pending
    /\ pending' = pending \ {id}
    /\ outbox' = Append(outbox, id)
    /\ UNCHANGED << handles, locks, procs, session, partial, garbled, hist,
                    request_id, capabilities, pc, op, stage, reqId, consumed,
                    got, result, sres, reg, dropped >>

Ops == {"initialize", "list_tools", "call_tool", "health_check", "shutdown"}

StdioNext ==
    \/ \E c \in Callers, o \in Ops : Begin(c, o)
    \/ \E c \in Callers : EnsureChild(c)
    \/ \E c \in Callers : EnsureStdin(c)
    \/ \E c \in Callers : EnsureStdout(c)
    \/ \E c \in Callers : AssignId(c)
    \/ \E c \in Callers : LockStdin(c)
    \/ \E c \in Callers : WriteBytes(c)
    \/ \E c \in Callers : WriteNewline(c)
    \/ \E c \in Callers : Flush(c)
    \/ \E c \in Callers : LockStdout(c)
    \/ \E c \in Callers : ReadLine(c)
    \/ \E c \in Callers : Timeout(c)
    \/ \E c \in Callers : ShutdownChild(c)
    \/ \E c \in Callers : ShutdownStdin(c)
    \/ \E c \in Callers : ShutdownStdout(c)
    \/ \E c \in Callers : Return(c)
    \/ DropClient
    \/ \E p \in Pids : ChildExit(p)
    \/ \E id \in Ids : ServerReply(id)





(***************************************************************************)
(* The http client: HttpSseMcpClient.                                      *)
(***************************************************************************)
MaxHttpRequests == 3   \* requests one http client sends in a run

HttpInit ==
    /\ transport \in {"stdio", "http"}
    /\ hpc = "idle" /\ hop = "none" /\ hres = NoResult /\ hsres = "none"
    /\ hcaps = FALSE /\ hsent = << >>

\* What the POST came to: whether send() returned a response, whether its
\* status is a success, and the body.
HttpResponses == [sent : BOOLEAN, success : BOOLEAN, body : Responses]

\* The http send_request (client.rs:329-356): HttpError for a failed send
\* or a status that is not a success, then the body is classified as the
\* stdio client classifies a line.
HttpClassify(h) ==
    IF ~h.sent
    THEN Outcome("HttpError", "send failed", "none")
    ELSE IF ~h.success
    THEN Outcome("HttpError", "HTTP status", "none")
    ELSE ClassifyResponse(h.body)

\* What the http send_request can return.
HttpOutcomes == {OutcomeKind(HttpClassify(h)) : h \in HttpResponses}

\* A task calls an operation of the http client.
HBegin(o) ==
    /\ UNCHANGED << stdioVars, execVars, discVars, classVars, timeout_secs, cliVars >>
    /\ transport = "http"
    /\ hpc = "idle"
    /\ o = "shutdown" \/ Len(hsent) < MaxHttpRequests
    /\ hop' = o
    /\ hpc' = "call"
    /\ UNCHANGED << transport, hres, hsres, hcaps, hsent >>

\* shutdown: Ok(()) and nothing else.
HShutdown ==
    /\ UNCHANGED << stdioVars, execVars, discVars, classVars, timeout_secs, cliVars >>
    /\ hpc = "call" /\ hop = "shutdown"
    /\ hres' = "Ok"
    /\ hpc' = "done"
    /\ UNCHANGED << transport, hop, hsres, hcaps, hsent >>

\* initialize, list_tools, call_tool and health_check: one send_request,
\* which POSTs one request and returns k; initialize caches the
\* capabilities it parsed.
HSendRequest(k) ==
    /\ UNCHANGED << stdioVars, execVars, discVars, classVars, timeout_secs, cliVars >>
    /\ hpc = "call" /\ hop # "shutdown"
    /\ hsent' = Append(hsent, Method(hop, 1))
    /\ hsres' = k
    /\ hres' = OpResult(hop, k)
    /\ hcaps' = (hcaps \/ (hop = "initialize" /\ k = "Ok"))
    /\ hpc' = "done"
    /\ UNCHANGED << transport, hop >>

\* The operation's value goes back to its caller.
HReturn ==
    /\ UNCHANGED << stdioVars, execVars, discVars, classVars, timeout_secs, cliVars >>
    /\ hpc = "done"
    /\ hpc' = "idle"
    /\ hop' = "none"
    /\ hres' = NoResult
    /\ hsres' = "none"
    /\ UNCHANGED << transport, hcaps, hsent >>

\* One client of either transport, as register_server builds it.
ClientNext ==
    \/ \E c \in Callers, o \in Ops : Begin(c, o)
    \/ \E c \in Callers : EnsureChild(c)
    \/ \E c \in Callers : EnsureStdin(c)
    \/ \E c \in Callers : EnsureStdout(c)
    \/ \E c \in Callers : AssignId(c)
    \/ \E c \in Callers : LockStdin(c)
    \/ \E c \in Callers : WriteBytes(c)
    \/ \E c \in Callers : WriteNewline(c)
    \/ \E c \in Callers : Flush(c)
    \/ \E c \in Callers : LockStdout(c)
    \/ \E c \in Callers : ReadLine(c)
    \/ \E c \in Callers : Timeout(c)
    \/ \E c \in Callers : ShutdownChild(c)
    \/ \E c \in Callers : ShutdownStdin(c)
    \/ \E c \in Callers : ShutdownStdout(c)
    \/ \E c \in Callers : Return(c)
    \/ DropClient
    \/ \E p \in Pids : ChildExit(p)
    \/ \E id \in Ids : ServerReply(id)
    \/ \E o \in Ops : HBegin(o)
    \/ HShutdown
    \/ \E k \in HttpOutcomes : HSendRequest(k)
    \/ HReturn

(***************************************************************************)
(* The tail of send_request on its own: one response, classified.          *)
(***************************************************************************)
ClassInit == cvia = "none" /\ cresp = "none" /\ cout = "none"

\* The stdio send_request has read the line r (client.rs:171-183).
StdioClassifyLine(r) ==
    /\ UNCHANGED << stdioVars, execVars, discVars, httpVars, timeout_secs, cliVars >>
    /\ cvia' = "stdio"
    /\ cresp' = r
    /\ cout' = ClassifyResponse(r)

\* The http send_request has POSTed and h came of it (client.rs:329-356).
HttpClassifyResponse(h) ==
    /\ UNCHANGED << stdioVars, execVars, discVars, httpVars, timeout_secs, cliVars >>
    /\ cvia' = "http"
    /\ cresp' = h
    /\ cout' = HttpClassify(h)

ClassNext ==
    \/ \E r \in Responses : StdioClassifyLine(r)
    \/ \E h \in HttpResponses : HttpClassifyResponse(h)

(***************************************************************************)
(* The tool adapter: McpTool::execute.                                     *)
(***************************************************************************)
MaxContent == 2        \* Content elements in one ToolResult

ServerNames == {"s1", "fs"}
ToolNames == {"echo", "read_file"}
ArgValues == {"{}", "null", "{\"x\":1}"}
DenyReasons == {"Action blocked: autonomy is read-only"}

\* Content values (protocol.rs:131-141).
Contents ==
    {[type |-> "text", text |-> "ok", data |-> "", media_type |-> "", uri |-> ""],
     [type |-> "text", text |-> "", data |-> "", media_type |-> "", uri |-> ""],
     [type |-> "image", text |-> "", data |-> "aGk=", media_type |-> "image/png", uri |-> ""],
     [type |-> "resource", text |-> "", data |-> "", media_type |-> "", uri |-> "file:///a"]}

ContentSeqs == UNION {[1..n -> Contents] : n \in 0..MaxContent}

\* What client.call_tool can return: a ToolResult or an McpError
\* (error.rs:7-57).
ToolResults ==
    {[kind |-> "Ok", content |-> cs, is_error |-> e, server |-> "", reason |-> ""] :
        cs \in ContentSeqs, e \in BOOLEAN}

McpErrors ==
    {[kind |-> k, content |-> << >>, is_error |-> FALSE, server |-> sv, reason |-> r] :
        k \in {"ServerError", "ParseError", "ProcessSpawn", "HttpError", "IoError"},
        sv \in {"s1"}, r \in {"boom", ""}}
    \cup
    {[kind |-> k, content |-> << >>, is_error |-> FALSE, server |-> sv, reason |-> "30"] :
        k \in {"Timeout"}, sv \in {"s1"}}
    \cup
    {[kind |-> k, content |-> << >>, is_error |-> FALSE, server |-> sv, reason |-> ""] :
        k \in {"ConnectionLost"}, sv \in {"s1"}}

CallOutcomes == ToolResults \cup McpErrors

\* The Display of an McpError (error.rs:8-42); reason holds timeout_secs for
\* Timeout.
Display(e) ==
    CASE e.kind = "ProcessSpawn" ->
            "Failed to spawn MCP server process '" \o e.server \o "': " \o e.reason
      [] e.kind = "ServerError" ->
            "MCP server '" \o e.server \o "' returned error: " \o e.reason
      [] e.kind = "ParseError" ->
            "Failed to parse MCP response from '" \o e.server \o "': " \o e.reason
      [] e.kind = "Timeout" ->
            "MCP server '" \o e.server \o "' timed out after " \o e.reason \o "s"
      [] e.kind = "ConnectionLost" ->
            "Connection to MCP server '" \o e.server \o "' lost"
      [] e.kind = "HttpError" ->
            "HTTP request to MCP server '" \o e.server \o "' failed: " \o e.reason
      [] e.kind = "IoError" ->
            "IO error communicating with MCP server '" \o e.server \o "': " \o e.reason
      [] OTHER -> ""

\* format!("mcp.{}.{}", self.server_name, self.definition.name)
ToolPath(server, tool) == "mcp." \o server \o "." \o tool

\* McpTool::format_content with an image rendered as its data.
FormatOneImageAsData(c) ==
    CASE c.type = "text" -> c.text
      [] c.type = "image" -> c.data
      [] OTHER -> "[Resource: " \o c.uri \o "]"

\* One element of format_content's map (tool.rs:43-49).
FormatOne(c) ==
    CASE c.type = "text" -> c.text
      [] c.type = "image" ->
            "[Image: " \o ToString(Len(c.data)) \o " bytes, type=" \o c.media_type \o "]"
      [] OTHER -> "[Resource: " \o c.uri \o "]"

RECURSIVE JoinLines(_)
JoinLines(ss) ==
    IF ss = << >> THEN ""
    ELSE IF Len(ss) = 1 THEN ss[1]
    ELSE ss[1] \o "\n" \o JoinLines(Tail(ss))

\* McpTool::format_content
FormatContent(content) ==
    JoinLines([i \in 1..Len(content) |-> FormatOne(content[i])])

NoError == [some |-> FALSE, text |-> ""]
SomeError(msg) == [some |-> TRUE, text |-> msg]

\* Ok(ZToolResult { .. }) and a propagated Err
OkResult(success, output, error) ==
    [tag |-> "Ok", success |-> success, output |-> output, error |-> error]
ErrResult(msg) ==
    [tag |-> "Err", success |-> FALSE, output |-> "", error |-> SomeError(msg)]
NoReturn == [tag |-> "none", success |-> FALSE, output |-> "", error |-> NoError]

Failure(msg) == OkResult(FALSE, "", SomeError(msg))

\* The match on call_tool's value with the ServerError arm left out, so that
\* a server error is reported like every other McpError.
NormalizeWrappingServerError(r) ==
    CASE r.kind = "Ok" ->
            OkResult(~r.is_error, FormatContent(r.content),
                     IF r.is_error THEN SomeError("MCP server returned error flag")
                     ELSE NoError)
      [] OTHER -> Failure("MCP tool execution failed: " \o Display(r))

\* The match on call_tool's value with success set whatever is_error says.
NormalizeIgnoringErrorFlag(r) ==
    CASE r.kind = "Ok" ->
            OkResult(TRUE, FormatContent(r.content),
                     IF r.is_error THEN SomeError("MCP server returned error flag")
                     ELSE NoError)
      [] r.kind = "ServerError" -> Failure(r.reason)
      [] OTHER -> Failure("MCP tool execution failed: " \o Display(r))

\* The match on call_tool's value with its last arm passing the error on.
NormalizePropagating(r) ==
    CASE r.kind = "Ok" ->
            OkResult(~r.is_error, FormatContent(r.content),
                     IF r.is_error THEN SomeError("MCP server returned error flag")
                     ELSE NoError)
      [] r.kind = "ServerError" -> Failure(r.reason)
      [] OTHER -> ErrResult(Display(r))

\* The match on call_tool's value (tool.rs:101-124).
Normalize(r) ==
    CASE r.kind = "Ok" ->
            OkResult(~r.is_error, FormatContent(r.content),
                     IF r.is_error THEN SomeError("MCP server returned error flag")
                     ELSE NoError)
      [] r.kind = "ServerError" -> Failure(r.reason)
      [] OTHER -> Failure("MCP tool execution failed: " \o Display(r))

\* Where execute goes after record_action, with the check left out.
AfterRecordUnchecked(permitted) == "call"

\* if !self.security.record_action() { return .. }
AfterRecord(permitted) == IF permitted THEN "call" ELSE "done"

\* Where execute goes after is_rate_limited, with the early return left out.
AfterRateCheckUnchecked(limited) == "policy"

\* if self.security.is_rate_limited() { return .. }
AfterRateCheck(limited) == IF limited THEN "done" ELSE "policy"

LogEntry(call, arg, ret) == [call |-> call, arg |-> arg, ret |-> ret]

ExecInit ==
    /\ xserver \in ServerNames
    /\ xtool \in ToolNames
    /\ xpc = "idle"
    /\ xargs = "null"
    /\ xlog = << >>
    /\ xret = NoReturn

\* The host calls execute(args).
ExecBegin(a) ==
    /\ UNCHANGED << stdioVars, discVars, httpVars, classVars, timeout_secs, cliVars >>
    /\ xpc = "idle"
    /\ xpc' = "rate"
    /\ xargs' = a
    /\ xlog' = << >>
    /\ xret' = NoReturn
    /\ UNCHANGED << xserver, xtool >>

\* if self.security.is_rate_limited() { return .. }
ExecRateCheck(limited) ==
    /\ UNCHANGED << stdioVars, discVars, httpVars, classVars, timeout_secs, cliVars >>
    /\ xpc = "rate"
    /\ xlog' = Append(xlog, LogEntry("is_rate_limited", << >>,
                                     IF limited THEN "true" ELSE "false"))
    /\ xpc' = AfterRateCheck(limited)
    /\ xret' = IF AfterRateCheck(limited) = "done"
               THEN Failure("Rate limit exceeded: too many actions in the last hour")
               ELSE xret
    /\ UNCHANGED << xserver, xtool, xargs >>

\* if let Err(reason) = self.security.enforce_tool_operation(Act, path) { return .. }
ExecPolicy(verdict) ==
    /\ UNCHANGED << stdioVars, discVars, httpVars, classVars, timeout_secs, cliVars >>
    /\ xpc = "policy"
    /\ xlog' = Append(xlog, LogEntry("enforce_tool_operation",
                                     << "Act", ToolPath(xserver, xtool) >>,
                                     IF verdict = "Ok" THEN "Ok" ELSE "Err"))
    /\ IF verdict = "Ok"
       THEN /\ xpc' = "record"
            /\ UNCHANGED xret
       ELSE /\ xpc' = "done"
            /\ xret' = Failure(verdict)
    /\ UNCHANGED << xserver, xtool, xargs >>

ExecRecord(permitted) ==
    /\ UNCHANGED << stdioVars, discVars, httpVars, classVars, timeout_secs, cliVars >>
    /\ xpc = "record"
    /\ xlog' = Append(xlog, LogEntry("record_action", << >>,
                                     IF permitted THEN "true" ELSE "false"))
    /\ xpc' = AfterRecord(permitted)
    /\ xret' = IF AfterRecord(permitted) = "done"
               THEN Failure("Rate limit exceeded: action budget exhausted")
               ELSE xret
    /\ UNCHANGED << xserver, xtool, xargs >>

\* self.client.call_tool(&self.definition.name, args) is called ...
ExecInvoke ==
    /\ UNCHANGED << stdioVars, discVars, httpVars, classVars, timeout_secs, cliVars >>
    /\ xpc = "call"
    /\ xlog' = Append(xlog, LogEntry("call_tool", << xtool, xargs >>, ""))
    /\ xpc' = "await"
    /\ UNCHANGED << xserver, xtool, xargs, xret >>

\* ... and returns r.
ExecNormalize(r) ==
    /\ UNCHANGED << stdioVars, discVars, httpVars, classVars, timeout_secs, cliVars >>
    /\ xpc = "await"
    /\ xlog' = [xlog EXCEPT ![Len(xlog)].ret = r]
    /\ xret' = Normalize(r)
    /\ xpc' = "done"
    /\ UNCHANGED << xserver, xtool, xargs >>

\* The host has the result.
ExecReturn ==
    /\ UNCHANGED << stdioVars, discVars, httpVars, classVars, timeout_secs, cliVars >>
    /\ xpc = "done"
    /\ xpc' = "idle"
    /\ xargs' = "null"
    /\ xlog' = << >>
    /\ xret' = NoReturn
    /\ UNCHANGED << xserver, xtool >>

ExecNext ==
    \/ \E a \in ArgValues : ExecBegin(a)
    \/ \E limited \in BOOLEAN : ExecRateCheck(limited)
    \/ \E verdict \in {"Ok"} \cup DenyReasons : ExecPolicy(verdict)
    \/ \E permitted \in BOOLEAN : ExecRecord(permitted)
    \/ ExecInvoke
    \/ \E r \in CallOutcomes : ExecNormalize(r)
    \/ ExecReturn

(***************************************************************************)
(* Discovery: discover_tools and McpRegistry::register_server.             *)
(***************************************************************************)
MaxServers == 2        \* servers in the configuration
MaxAttempts == 2       \* largest retry_policy.max_attempts
MaxTools == 2          \* tools one server lists

\* A server of the configuration: its transport_type, whether it has an
\* auth_token, and the max_attempts of its retry policy.
ServerConfigs ==
    {sc \in [transport : {"stdio", "http", "websocket"}, auth : BOOLEAN,
             max_attempts : {0, MaxAttempts}] :
        sc.auth => sc.transport = "http"}

ServerLists == UNION {[1..n -> ServerConfigs] : n \in 0..MaxServers}

\* The tools a server lists: a list is told apart by its length.
AllToolNames == << "echo", "read_file", "grep", "ls" >>
ToolLists == {SubSeq(AllToolNames, 1, n) : n \in 0..MaxTools}

DiscInit ==
    /\ enabled \in BOOLEAN
    /\ servers \in ServerLists
    /\ dpc = "idle"
    /\ di = 0
    /\ attempts = 0
    /\ all_tools = << >>
    /\ dret = "none"
    /\ dio = << >>
    /\ dspawned = {}
    /\ regOutcome = [i \in 1..Len(servers) |-> "none"]
    /\ regTools = [i \in 1..Len(servers) |-> << >>]
    /\ initCalls = [i \in 1..Len(servers) |-> 0]
    /\ regLog = [i \in 1..Len(servers) |-> << >>]

\* The test !config.enabled, and the test the wrong way round.
DisabledInverted(e) == e

Disabled(e) == ~e

\* What the loop of discover_tools does with an Err of register_server:
\* it logs a warning and goes on; passing the error on would end discovery.
ErrArmPropagating == "fail"

ErrArm == "skip"

\* The guard of the retry arm with the bound counted one too far.
RetryAllowedInclusive(a, max) == a <= max

\* Err(e) if attempts < retry_policy.max_attempts
RetryAllowed(a, max) == a < max

\* The child processes of discovery that are running: register_server and
\* discover_tools never call shutdown, and a StdioMcpClient that goes out of
\* scope releases its Child handle without killing it (see DropClient), so
\* every child spawned is still running unless it ends by itself.
ChildrenRunning == dspawned

\* The test for an auth_token left out: every http server resolves one.
NeedsSecretAlways(sc) == sc.transport = "http"

\* "http" => if let Some(token) = &server_config.auth_token
NeedsSecret(sc) == sc.transport = "http" /\ sc.auth

\* McpError::initialization_failed(server, reason); resolve_secret passes
\* the literal "secret" as the server.
initialization_failed(server) == "InitializationFailed{" \o server \o "}"

\* list_tools given the retry arm that initialize has.
ListRetryAllowedAsInitialize(a, max) == a < max

\* client.list_tools().await?: the error is returned, there is no retry arm.
ListRetryAllowed(a, max) == FALSE

\* register_server does the things es for the server it is working on.
Logged(es) == regLog' = [regLog EXCEPT ![di] = @ \o es]

\* The adapters with a client of its own for each.
AdaptersOwnClient(i, tools) ==
    [k \in 1..Len(tools) |->
        [server |-> i, tool |-> tools[k], client |-> i + k * MaxServers]]

\* The adapters register_server builds from a tools list: one per
\* definition, all holding the client of server i.
Adapters(i, tools) ==
    [k \in 1..Len(tools) |-> [server |-> i, tool |-> tools[k], client |-> i]]

\* The host calls tools::mcp::discover_tools.
DiscoverCall ==
    /\ UNCHANGED << stdioVars, execVars, httpVars, classVars, timeout_secs, cliVars >>
    /\ dpc = "idle"
    /\ dpc' = "mod_check"
    /\ UNCHANGED << enabled, servers, di, attempts, all_tools, dret, dio,
                    dspawned, regOutcome, regTools, initCalls, regLog >>

\* mod.rs: if !config.enabled { return Ok(Vec::new()) }, else the call of
\* McpRegistry::discover_tools.
ModCheck ==
    /\ UNCHANGED << stdioVars, execVars, httpVars, classVars, timeout_secs, cliVars >>
    /\ dpc = "mod_check"
    /\ IF Disabled(enabled)
       THEN dpc' = "done" /\ dret' = "Ok"
       ELSE dpc' = "reg_check" /\ UNCHANGED dret
    /\ UNCHANGED << enabled, servers, di, attempts, all_tools, dio, dspawned,
                    regOutcome, regTools, initCalls, regLog >>

\* registry.rs: the same test, then let mut all_tools = Vec::new().
RegistryCheck ==
    /\ UNCHANGED << stdioVars, execVars, httpVars, classVars, timeout_secs, cliVars >>
    /\ dpc = "reg_check"
    /\ IF Disabled(enabled)
       THEN dpc' = "done" /\ dret' = "Ok" /\ UNCHANGED di
       ELSE dpc' = "loop" /\ di' = 1 /\ UNCHANGED dret
    /\ UNCHANGED << enabled, servers, attempts, all_tools, dio, dspawned,
                    regOutcome, regTools, initCalls, regLog >>

\* The head of for server_config in &config.servers: the next server's
\* register_server starts, or Ok(all_tools) is returned.
LoopHead ==
    /\ UNCHANGED << stdioVars, execVars, httpVars, classVars, timeout_secs, cliVars >>
    /\ dpc = "loop"
    /\ IF di > Len(servers)
       THEN dpc' = "done" /\ dret' = "Ok"
       ELSE dpc' = "dispatch" /\ UNCHANGED dret
    /\ attempts' = 0
    /\ UNCHANGED << enabled, servers, di, all_tools, dio, dspawned, regOutcome,
                    regTools, initCalls, regLog >>

\* register_server returns Err(kind): the Err arm of the loop.
Skipped(kind) ==
    /\ regOutcome' = [regOutcome EXCEPT ![di] = kind]
    /\ IF ErrArm = "skip"
       THEN dpc' = "loop" /\ di' = di + 1 /\ UNCHANGED dret
       ELSE dpc' = "done" /\ dret' = "Err" /\ UNCHANGED di

\* The match on transport_type up to the construction of the client.
Dispatch ==
    /\ UNCHANGED << stdioVars, execVars, httpVars, classVars, timeout_secs, cliVars >>
    /\ dpc = "dispatch"
    /\ LET sc == servers[di] IN
       CASE sc.transport = "stdio" ->
               /\ dio' = Append(dio, "new_stdio")
               /\ Logged(<< "new" >>)
               /\ dpc' = "init"
               /\ UNCHANGED << di, dret, regOutcome >>
         [] NeedsSecret(sc) ->
               /\ dpc' = "secret"
               /\ UNCHANGED << di, dret, regOutcome, dio, regLog >>
         [] sc.transport = "http" /\ ~NeedsSecret(sc) ->
               /\ dio' = Append(dio, "new_http")
               /\ Logged(<< "new" >>)
               /\ dpc' = "init"
               /\ UNCHANGED << di, dret, regOutcome >>
         [] OTHER ->
               /\ Skipped("UnknownTransport")
               /\ UNCHANGED << dio, regLog >>
    /\ UNCHANGED << enabled, servers, attempts, all_tools, dspawned, regTools, initCalls >>

\* resolve_secret: the secret store decrypts the token, or fails.
ResolveSecret(ok) ==
    /\ UNCHANGED << stdioVars, execVars, httpVars, classVars, timeout_secs, cliVars >>
    /\ dpc = "secret"
    /\ IF ok
       THEN /\ dio' = dio \o << "decrypt", "new_http" >>
            /\ Logged(<< "decrypt", "new" >>)
            /\ dpc' = "init"
            /\ UNCHANGED << di, dret, regOutcome >>
       ELSE /\ dio' = Append(dio, "decrypt")
            /\ Logged(<< "decrypt" >>)
            /\ Skipped(initialization_failed("secret"))
    /\ UNCHANGED << enabled, servers, attempts, all_tools, dspawned, regTools, initCalls >>

\* One client.initialize() of the retry loop. A stdio client spawns its
\* child in the first call that gets that far; an http client sends its
\* request.
InitOutcomes(i) ==
    IF servers[i].transport = "stdio" /\ i \notin dspawned
    THEN {"Ok", "ProcessSpawn", "InitFailed"}
    ELSE {"Ok", "InitFailed"}

InitIo(i, outcome) ==
    IF outcome = "ProcessSpawn" THEN << >>
    ELSE IF servers[i].transport = "stdio" /\ i \notin dspawned
    THEN << "spawn", "initialize" >>
    ELSE << "initialize" >>

InitAttempt(outcome) ==
    /\ UNCHANGED << stdioVars, execVars, httpVars, classVars, timeout_secs, cliVars >>
    /\ dpc = "init"
    /\ outcome \in InitOutcomes(di)
    /\ dspawned' = IF servers[di].transport = "stdio" /\ outcome # "ProcessSpawn"
                   THEN dspawned \cup {di} ELSE dspawned
    /\ IF outcome = "Ok"
       THEN /\ dio' = dio \o InitIo(di, outcome)
            /\ dpc' = "list"
            /\ UNCHANGED << di, dret, regOutcome, attempts >>
       ELSE IF RetryAllowed(attempts, servers[di].max_attempts)
       THEN /\ attempts' = attempts + 1
            /\ dio' = dio \o InitIo(di, outcome) \o << "sleep" >>
            /\ UNCHANGED << dpc, di, dret, regOutcome >>
       ELSE /\ dio' = dio \o InitIo(di, outcome)
            /\ Skipped(outcome)
            /\ UNCHANGED attempts
    /\ initCalls' = [initCalls EXCEPT ![di] = @ + 1]
    /\ Logged(<< IF outcome = "Ok" THEN "initialize_ok" ELSE "initialize_err" >>)
    /\ UNCHANGED << enabled, servers, all_tools, regTools >>

\* client.list_tools() fails: register_server returns the error.
ListToolsFails ==
    /\ UNCHANGED << stdioVars, execVars, httpVars, classVars, timeout_secs, cliVars >>
    /\ dpc = "list"
    /\ dio' = Append(dio, "list_tools")
    /\ Logged(<< "list_tools_err" >>)
    /\ IF ListRetryAllowed(attempts, servers[di].max_attempts)
       THEN /\ attempts' = attempts + 1
            /\ UNCHANGED << dpc, di, dret, regOutcome >>
       ELSE /\ Skipped("ListFailed")
            /\ UNCHANGED attempts
    /\ UNCHANGED << enabled, servers, all_tools, dspawned, regTools, initCalls >>

\* The adapters of a server put in front of those collected before.
PrependTools(all, new) == new \o all

\* all_tools.append(&mut tools) (registry.rs:37): the adapters of the
\* server go to the end of the list, in their order.
AppendTools(all, new) == all \o new

\* client.list_tools() returns the definitions, register_server wraps each
\* in an McpTool, and the Ok arm of the loop appends them.
ListToolsOk(tools) ==
    /\ UNCHANGED << stdioVars, execVars, httpVars, classVars, timeout_secs, cliVars >>
    /\ dpc = "list"
    /\ dio' = Append(dio, "list_tools")
    /\ regOutcome' = [regOutcome EXCEPT ![di] = "Ok"]
    /\ regTools' = [regTools EXCEPT ![di] = tools]
    /\ all_tools' = AppendTools(all_tools, Adapters(di, tools))
    /\ di' = di + 1
    /\ dpc' = "loop"
    /\ Logged(<< "list_tools_ok" >>)
    /\ UNCHANGED << enabled, servers, attempts, dret, dspawned, initCalls >>

DiscNext ==
    \/ DiscoverCall
    \/ ModCheck
    \/ RegistryCheck
    \/ LoopHead
    \/ Dispatch
    \/ \E ok \in BOOLEAN : ResolveSecret(ok)
    \/ \E outcome \in {"Ok", "ProcessSpawn", "InitFailed"} : InitAttempt(outcome)
    \/ ListToolsFails
    \/ \E tools \in ToolLists : ListToolsOk(tools)

(***************************************************************************)
(* The server list of the configuration: zeroclaw mcp add / remove and     *)
(* import_external_mcp_configs.                                            *)
(***************************************************************************)
MaxConfigServers == 4  \* servers in config.mcp.servers
MaxSources == 2        \* import sources whose file exists

ConfigNames == {"fs", "git"}

\* The servers import_from_str returns for a file, by name and in order.
\* The names are the keys of one JSON object, so they differ.
FileServers == {<< >>, << "fs" >>, << "git" >>, << "fs", "git" >>, << "git", "fs" >>}

\* The --import argument of mcp add: absent, or a file that can or cannot
\* be read and parsed.
NoImport == [given |-> FALSE, ok |-> FALSE, names |-> << >>]
ImportArgs ==
    {NoImport} \cup
    {[given |-> TRUE, ok |-> FALSE, names |-> << >>]} \cup
    {[given |-> TRUE, ok |-> TRUE, names |-> f] : f \in FileServers}

\* An import source whose file exists: read_to_string fails, import_from_str
\* fails, or it yields servers.
SourceFiles ==
    {[state |-> "unreadable", names |-> << >>],
     [state |-> "unparsable", names |-> << >>]} \cup
    {[state |-> "ok", names |-> f] : f \in FileServers}

SourceLists == UNION {[1..n -> SourceFiles] : n \in 0..MaxSources}

Command(o, name, imp, sources) ==
    [op |-> o, name |-> name, import |-> imp, sources |-> sources]

CliInit ==
    /\ mcp_servers = << >>
    /\ cmd = Command("none", "", NoImport, << >>)
    /\ servers_before = << >>
    /\ cmd_ret = "none"

NamesOf(list) == {list[k] : k \in 1..Len(list)}

\* The name of the server cmd_add_server pushes: the name given on the
\* command line, or the name the first server of the import file has.
AddedName(name, imp) == IF imp.given THEN Head(imp.names) ELSE name

\* cmd_add_server(config, name, .., import_file); saved is whether
\* config.save() succeeds.
CmdAddServer(name, imp, saved) ==
    /\ UNCHANGED << stdioVars, execVars, discVars, httpVars, classVars,
                    timeout_secs >>
    /\ Len(mcp_servers) < MaxConfigServers
    /\ cmd' = Command("add", name, imp, << >>)
    /\ servers_before' = mcp_servers
    /\ IF name \in NamesOf(mcp_servers)
       THEN \* bail!("MCP server '{}' already exists")
            cmd_ret' = "Err" /\ UNCHANGED mcp_servers
       ELSE IF imp.given /\ (~imp.ok \/ imp.names = << >>)
       THEN \* the file cannot be read or parsed, or holds no server
            cmd_ret' = "Err" /\ UNCHANGED mcp_servers
       ELSE /\ mcp_servers' = Append(mcp_servers, AddedName(name, imp))
            /\ cmd_ret' = IF saved THEN "Ok" ELSE "Err"

\* cmd_remove_server(config, name)
CmdRemoveServer(name, saved) ==
    /\ UNCHANGED << stdioVars, execVars, discVars, httpVars, classVars,
                    timeout_secs >>
    /\ cmd' = Command("remove", name, NoImport, << >>)
    /\ servers_before' = mcp_servers
    /\ mcp_servers' = SelectSeq(mcp_servers, LAMBDA n : n # name)
    /\ cmd_ret' = IF Len(mcp_servers') < Len(mcp_servers) /\ ~saved
                  THEN "Err" ELSE "Ok"

\* The name under which the importer stores a server called name when the
\* configuration holds the servers list: new_name is computed for the log
\* line only, and the server is pushed as it came.
StoredName(list, name) == name

\* for server in servers { .. config.mcp.servers.push(server) }
RECURSIVE MergeServers(_, _)
MergeServers(list, names) ==
    IF names = << >>
    THEN list
    ELSE MergeServers(Append(list, StoredName(list, Head(names))), Tail(names))

\* for source in IMPORT_SOURCES: a file that cannot be read ends the import
\* with its error, one that cannot be parsed is reported and passed over.
RECURSIVE ImportSources(_, _)
ImportSources(list, sources) ==
    IF sources = << >>
    THEN [names |-> list, read |-> TRUE]
    ELSE IF Head(sources).state = "unreadable"
    THEN [names |-> list, read |-> FALSE]
    ELSE IF Head(sources).state = "unparsable"
    THEN ImportSources(list, Tail(sources))
    ELSE ImportSources(MergeServers(list, Head(sources).names), Tail(sources))

\* import_external_mcp_configs(config)
ImportExternal(sources, saved) ==
    /\ UNCHANGED << stdioVars, execVars, discVars, httpVars, classVars,
                    timeout_secs >>
    /\ LET r == ImportSources(mcp_servers, sources)
       IN /\ Len(r.names) <= MaxConfigServers
          /\ mcp_servers' = r.names
          /\ cmd_ret' = IF r.read /\ saved THEN "Ok" ELSE "Err"
    /\ cmd' = Command("import", "", NoImport, sources)
    /\ servers_before' = mcp_servers

CliNext ==
    \/ \E name \in ConfigNames, imp \in ImportArgs, saved \in BOOLEAN :
          CmdAddServer(name, imp, saved)
    \/ \E name \in ConfigNames, saved \in BOOLEAN : CmdRemoveServer(name, saved)
    \/ \E sources \in SourceLists, saved \in BOOLEAN :
          ImportExternal(sources, saved)

(***************************************************************************)
(* Specifications.                                                         *)
(***************************************************************************)
\* The machines at rest, for the specifications that do not run them.
ExecIdle ==
    /\ xserver = "s1" /\ xtool = "echo" /\ xpc = "idle" /\ xargs = "null"
    /\ xlog = << >> /\ xret = NoReturn

DiscIdle ==
    /\ enabled = FALSE /\ servers = << >> /\ dpc = "idle" /\ di = 0
    /\ attempts = 0 /\ all_tools = << >> /\ dret = "none" /\ dio = << >>
    /\ dspawned = {} /\ regOutcome = << >> /\ regTools = << >>
    /\ initCalls = << >> /\ regLog = << >>

\* The client is the stdio one and no http client is in use.
HttpIdle ==
    /\ transport = "stdio"
    /\ hpc = "idle" /\ hop = "none" /\ hres = NoResult /\ hsres = "none"
    /\ hcaps = FALSE /\ hsent = << >>

\* The timeout the configuration gives a server: the 30 seconds that
\* cmd_add_server and the importers write, or 0.
TimeoutDefault == timeout_secs = 30
TimeoutZero == timeout_secs = 0

InitStdio ==
    StdioInit /\ ExecIdle /\ DiscIdle /\ HttpIdle /\ ClassInit /\ TimeoutDefault
    /\ CliInit
InitStdioZero ==
    StdioInit /\ ExecIdle /\ DiscIdle /\ HttpIdle /\ ClassInit /\ TimeoutZero
    /\ CliInit
InitExec ==
    StdioInit /\ ExecInit /\ DiscIdle /\ HttpIdle /\ ClassInit /\ TimeoutDefault
    /\ CliInit
InitDiscover ==
    StdioInit /\ ExecIdle /\ DiscInit /\ HttpIdle /\ ClassInit /\ TimeoutDefault
    /\ CliInit
InitClient ==
    StdioInit /\ ExecIdle /\ DiscIdle /\ HttpInit /\ ClassInit /\ TimeoutDefault
    /\ CliInit
InitClassify ==
    StdioInit /\ ExecIdle /\ DiscIdle /\ HttpIdle /\ ClassInit /\ TimeoutDefault
    /\ CliInit
InitCli ==
    StdioInit /\ ExecIdle /\ DiscIdle /\ HttpIdle /\ ClassInit /\ TimeoutDefault
    /\ CliInit

SpecStdio == InitStdio /\ [][StdioNext]_vars
SpecStdioZero == InitStdioZero /\ [][StdioNext]_vars

\* The steps of task c once its operation has begun. A step that is
\* possible again and again is taken: a tokio Mutex is handed to its waiters
\* in the order they came, so a waiter is not passed over for ever; a write
\* into the pipe and a kill return; a pending read ends by a line, the end
\* of the stream or the deadline of tokio::time::timeout.
TaskStep(c) ==
    \/ EnsureChild(c) \/ EnsureStdin(c) \/ EnsureStdout(c)
    \/ AssignId(c)
    \/ LockStdin(c) \/ WriteBytes(c) \/ WriteNewline(c) \/ Flush(c)
    \/ LockStdout(c) \/ ReadLine(c) \/ Timeout(c)
    \/ ShutdownChild(c) \/ ShutdownStdin(c) \/ ShutdownStdout(c)

InitStdioLive ==
    StdioRegistered /\ ExecIdle /\ DiscIdle /\ HttpIdle /\ ClassInit /\ TimeoutDefault
    /\ CliInit

SpecStdioLive ==
    InitStdioLive /\ [][StdioNext]_vars /\ \A c \in Callers : SF_vars(TaskStep(c))
SpecExec == InitExec /\ [][ExecNext]_vars
SpecClient == InitClient /\ [][ClientNext]_vars
SpecDiscover == InitDiscover /\ [][DiscNext]_vars
SpecClassify == InitClassify /\ [][ClassNext]_vars
SpecCli == InitCli /\ [][CliNext]_vars

\* Discovery runs in one task and each of its awaits ends: a spawn returns,
\* a send_request is cut off by its timeout, an HTTP round trip by the
\* request timeout, a sleep by its duration. A step that can be taken is
\* taken.
SpecDiscoverLive == InitDiscover /\ [][DiscNext]_vars /\ WF_vars(DiscNext)

(***************************************************************************)
(* Properties of discovery.                                                *)
(***************************************************************************)

\* C1: with config.enabled false, discover_tools returns Ok with an empty
\* adapter list and does no I/O: no client is built, no process spawned, no
\* request sent, no secret decrypted.
C1_DisabledReturnsEmptyWithoutIo ==
    ~enabled =>
        /\ dio = << >>
        /\ dspawned = {}
        /\ all_tools = << >>
        /\ dpc \in {"idle", "mod_check", "done"}
        /\ dpc = "done" => dret = "Ok"

\* discover_tools has returned for a disabled configuration that names a
\* stdio server and an http server with a token.
C1_Witness ==
    /\ dpc = "done" /\ ~enabled
    /\ \E i, j \in 1..Len(servers) :
          servers[i].transport = "stdio" /\ servers[j].auth

\* The adapters of the servers 1..n whose registration succeeded, in order.
RECURSIVE AdaptersOfRegistered(_)
AdaptersOfRegistered(n) ==
    IF n = 0 THEN << >>
    ELSE AdaptersOfRegistered(n - 1) \o
         (IF regOutcome[n] = "Ok"
          THEN [k \in 1..Len(regTools[n]) |->
                   [server |-> n, tool |-> regTools[n][k], client |-> n]]
          ELSE << >>)

\* C2: discover_tools never fails as a whole: it returns Ok, every server
\* of an enabled configuration has been tried whatever happened to the
\* servers before it, and the adapters returned are exactly those of the
\* servers whose registration succeeded.
C2_DiscoverNeverFails ==
    dpc = "done" =>
        /\ dret = "Ok"
        /\ enabled => \A i \in 1..Len(servers) : regOutcome[i] # "none"
        /\ all_tools = AdaptersOfRegistered(Len(servers))

\* Discovery has returned adapters of the second server after the first
\* one failed to initialize with its retries used up.
C2_Witness ==
    /\ dpc = "done" /\ enabled /\ Len(servers) = 2
    /\ servers[1].max_attempts > 0
    /\ regOutcome[1] = "InitFailed" /\ regOutcome[2] = "Ok"
    /\ all_tools # << >>

\* Retries register_server has made for server i: initialize calls that
\* failed and were followed by a sleep and another call.
Retries(i) ==
    IF initCalls[i] = 0 THEN 0
    ELSE IF i = di /\ dpc = "init" THEN initCalls[i]
    ELSE initCalls[i] - 1

RECURSIVE RetriesUpTo(_)
RetriesUpTo(n) == IF n = 0 THEN 0 ELSE RetriesUpTo(n - 1) + Retries(n)

Sleeps == Cardinality({k \in 1..Len(dio) : dio[k] = "sleep"})

\* The safety part of C12.
C12_RetryBound ==
    /\ \A i \in 1..Len(servers) :
          /\ initCalls[i] <= servers[i].max_attempts + 1
          \* register_server gave up on initialize only with every attempt used
          /\ regOutcome[i] \in {"InitFailed", "ProcessSpawn"} =>
                initCalls[i] = servers[i].max_attempts + 1
    \* while the loop runs every call so far has failed and been counted, the
    \* count starting at 0 for each server; a success ends the loop
    /\ dpc = "init" =>
          (initCalls[di] = attempts /\ attempts <= servers[di].max_attempts)
    /\ dpc = "list" => initCalls[di] = attempts + 1
    \* one sleep before each retry and no other
    /\ Sleeps = RetriesUpTo(Len(servers))

\* C12: while one server is registered, initialize is called again only
\* after a failure and only while the failures so far are fewer than
\* max_attempts, with one sleep before each retry; the loop stops at the
\* first success, so at most max_attempts + 1 calls are made per server; the
\* counter starts at 0 for every server; and registration of a server
\* always terminates.
C12_BoundedRetryTerminates ==
    /\ [](C12_RetryBound)
    /\ (dpc \in {"dispatch", "secret", "init", "list"}) ~> (dpc \in {"loop", "done"})

\* Discovery has returned: the first server, with max_attempts = 2, failed
\* once and then initialized, two initialize calls in all, and listed
\* tools; the second gave up after its three calls.
C12_Witness ==
    /\ dpc = "done" /\ Len(servers) = 2
    /\ servers[1].max_attempts = 2 /\ initCalls[1] = 2 /\ regOutcome[1] = "Ok"
    /\ all_tools # << >>
    /\ servers[2].max_attempts = 2 /\ initCalls[2] = 3
    /\ regOutcome[2] = "InitFailed"

\* C17: when discover_tools returns, a stdio child spawned during discovery
\* is still running only if some returned adapter holds its client: the
\* children of the servers that were skipped, or that listed no tools, have
\* been killed.
C17_SkippedChildrenKilled ==
    dpc = "done" =>
        \A i \in ChildrenRunning :
            \E k \in 1..Len(all_tools) : all_tools[k].client = i

(***************************************************************************)
(* Properties of the tool adapter.                                         *)
(***************************************************************************)

\* C9: execute never raises: whatever the arguments, the policy and the
\* client return, it returns Ok with a {success, output, error} result.
C9_ExecuteNeverRaises ==
    xpc = "done" =>
        /\ xret.tag = "Ok"
        /\ xret.success \in BOOLEAN
        /\ xret.error.some \in BOOLEAN
        /\ xret.success => ~xret.error.some

\* execute has returned after call_tool failed with an error that is not a
\* ServerError.
C9_Witness ==
    /\ xpc = "done" /\ Len(xlog) = 4
    /\ xret.error =
         SomeError("MCP tool execution failed: Connection to MCP server 's1' lost")

ExecuteOrder ==
    << "is_rate_limited", "enforce_tool_operation", "record_action", "call_tool" >>

\* C10: execute makes its calls in the order rate check, policy check (with
\* Act and mcp.<server>.<tool>), record_action, call_tool, and a step runs
\* only when every step before it passed.
C10_StepsInOrderShortCircuit ==
    /\ Len(xlog) <= 4
    /\ \A k \in 1..Len(xlog) : xlog[k].call = ExecuteOrder[k]
    /\ Len(xlog) >= 2 =>
          /\ xlog[1].ret = "false"
          /\ xlog[2].arg = << "Act", "mcp." \o xserver \o "." \o xtool >>
    /\ Len(xlog) >= 3 => xlog[2].ret = "Ok"
    /\ Len(xlog) >= 4 => xlog[3].ret = "true"
    /\ xpc \in {"await", "done"} /\ Len(xlog) = 4 => xlog[4].arg = << xtool, xargs >>
    /\ (xpc = "done" /\ Len(xlog) < 4) =>
          xlog[Len(xlog)].ret = << "true", "Err", "false" >>[Len(xlog)]

\* call_tool has been invoked after the three checks passed, and has
\* returned.
C10_Witness ==
    /\ xpc = "done" /\ Len(xlog) = 4 /\ xret.success
    /\ xserver = "fs" /\ xtool = "read_file"

\* C11: when is_rate_limited() returns true, execute returns the failure
\* "Rate limit exceeded: too many actions in the last hour" with empty
\* output, and makes no other call: the policy is not asked, no action is
\* recorded and the client, the only way execute has to a process or the
\* network, is not called.
C11_RateLimitedNoIo ==
    (Len(xlog) >= 1 /\ xlog[1].ret = "true") =>
        /\ xlog[1].call = "is_rate_limited"
        /\ Len(xlog) = 1
        /\ xpc = "done"
        /\ xret = OkResult(FALSE, "",
                    SomeError("Rate limit exceeded: too many actions in the last hour"))

\* execute has returned for a rate-limited call with arguments.
C11_Witness ==
    /\ xpc = "done" /\ Len(xlog) = 1 /\ xlog[1].ret = "true"
    /\ xargs = "{\"x\":1}" /\ ~xret.success

\* The text the contract gives for one content element of the model.
ElementText(c) ==
    IF c.type = "text" THEN c.text
    ELSE IF c.type = "image" THEN "[Image: 4 bytes, type=image/png]"
    ELSE "[Resource: file:///a]"

\* The element texts in order with a newline between neighbours, built from
\* the last element backwards.
RECURSIVE ExpectedOutput(_)
ExpectedOutput(cs) ==
    IF Len(cs) = 0 THEN ""
    ELSE IF Len(cs) = 1 THEN ElementText(cs[1])
    ELSE ExpectedOutput(SubSeq(cs, 1, Len(cs) - 1)) \o "\n" \o ElementText(cs[Len(cs)])

\* C13: when call_tool returns a ToolResult, execute returns success = not
\* is_error, output = the content elements rendered in order and joined by
\* newline (kept also when is_error is true), and error = "MCP server
\* returned error flag" exactly when is_error is true.
C13_ToolResultNormalized ==
    (xpc = "done" /\ Len(xlog) = 4 /\ xlog[4].ret.kind = "Ok") =>
        LET r == xlog[4].ret IN
        /\ xret.tag = "Ok"
        /\ xret.success = ~r.is_error
        /\ xret.output = ExpectedOutput(r.content)
        /\ xret.error = IF r.is_error
                        THEN SomeError("MCP server returned error flag")
                        ELSE NoError

\* execute has returned for a ToolResult with the error flag set and a text
\* followed by an image.
C13_Witness ==
    /\ xpc = "done" /\ Len(xlog) = 4 /\ xlog[4].ret.kind = "Ok"
    /\ xlog[4].ret.is_error
    /\ Len(xlog[4].ret.content) = 2
    /\ xlog[4].ret.content[1].type = "text" /\ xlog[4].ret.content[2].type = "image"
    /\ xret.output = "ok\n[Image: 4 bytes, type=image/png]"
    /\ ~xret.success

\* C14: when call_tool fails, execute returns success = false with empty
\* output; the error is the server's raw message for a ServerError and
\* "MCP tool execution failed: " followed by the error's display for every
\* other McpError.
C14_CallErrorNormalized ==
    (xpc = "done" /\ Len(xlog) = 4 /\ xlog[4].ret.kind # "Ok") =>
        LET r == xlog[4].ret IN
        /\ xret.tag = "Ok"
        /\ ~xret.success
        /\ xret.output = ""
        /\ xret.error.some
        /\ r.kind = "ServerError" => xret.error.text = r.reason
        /\ r.kind # "ServerError" =>
              xret.error.text = "MCP tool execution failed: " \o Display(r)
        /\ r.kind = "Timeout" =>
              xret.error.text =
                "MCP tool execution failed: MCP server 's1' timed out after 30s"
        /\ (r.kind = "IoError" /\ r.reason = "boom") =>
              xret.error.text =
                "MCP tool execution failed: IO error communicating with MCP server 's1': boom"

\* execute has returned the raw message of a server error.
C14_Witness ==
    /\ xpc = "done" /\ Len(xlog) = 4 /\ xlog[4].ret.kind = "ServerError"
    /\ xlog[4].ret.reason = "boom"
    /\ xret = OkResult(FALSE, "", SomeError("boom"))

(***************************************************************************)
(* Properties of the stdio client.                                         *)
(***************************************************************************)

\* C3: a stdio client that has spawned a child kills it when shutdown is
\* called and when the client is dropped: once shutdown has returned (and
\* nothing has respawned since) or the client is dropped, the child it
\* spawned is not running and the stream handles are released.
C3_ChildKilledOnShutdownAndDrop ==
    /\ \A c \in Callers :
         (pc[c] = "done" /\ op[c] = "shutdown" /\ child = None)
            => (session \notin alive /\ stdin = None /\ stdout = None)
    /\ dropped => (session \notin alive /\ stdin = None /\ stdout = None)

\* C4: every send_request returns the response to its own request: the line
\* it read carries the id it sent.
C4_ResponseMatchesRequest ==
    \A c \in Callers : got[c] # 0 => got[c] = reqId[c]

\* Tasks whose request is on the child's stdin and whose send_request has
\* neither read a line nor failed.
Outstanding == {c \in Callers : pc[c] \in {"write_nl", "flush", "read", "reading"}}

\* C5: at most one request is outstanding on a stdio client at any time.
C5_OneOutstandingRequest == Cardinality(Outstanding) <= 1

\* C6: the ids of the request lines written to the child's stdin increase
\* strictly in the order of writing.
C6_WrittenIdsIncrease ==
    \A i \in 1..(Len(sentLog) - 1) : sentLog[i] < sentLog[i + 1]

\* C7: after a send_request ended with Timeout no later request reads from
\* the stdout of the same child.
C7_NoReadAfterTimeout == ~readAfterTimeout

\* C8: each send_request takes at most one line from the child's stdout.
C8_AtMostOneLineConsumed == \A c \in Callers : consumed[c] <= 1

\* A send_request that read its one line and returned a server error, and
\* one that returned Timeout having read nothing while a line was waiting
\* for the next request.
C8_Witness ==
    \E c, d \in Callers :
        /\ pc[c] = "done" /\ consumed[c] = 1 /\ result[c] = "ServerError"
        /\ pc[d] = "done" /\ consumed[d] = 0 /\ result[d] = "Timeout"

\* The step in which a stdio shutdown returns: it returns Ok and leaves the
\* three handles absent and the child gone. The return of an http shutdown
\* is Ok.
C15_ShutdownLeavesNothing ==
    /\ \A c \in Callers :
          (pc[c] = "sd_stdout" /\ pc'[c] = "done") =>
              /\ result'[c] = "Ok"
              /\ child' = None /\ stdin' = None /\ stdout' = None
              /\ session' \notin alive'
    /\ (hop = "shutdown" /\ hpc = "call" /\ hpc' = "done") => hres' = "Ok"

\* A step of a stdio shutdown on a client whose handles are all absent
\* changes nothing of the client or its processes.
C15_ShutdownAgainChangesNothing ==
    \A c \in Callers :
        (/\ pc[c] \in {"sd_child", "sd_stdin", "sd_stdout"}
         /\ pc'[c] # pc[c]
         /\ child = None /\ stdin = None /\ stdout = None)
        => UNCHANGED << handles, procs, pipe, request_id, capabilities >>

\* shutdown of an http client changes nothing of the client.
C15_HttpShutdownNoOp ==
    (hop = "shutdown" /\ hpc = "call" /\ hpc' = "done")
        => UNCHANGED << transport, hcaps, hsent, hsres >>

\* C15: shutdown always returns Ok; on a stdio client it leaves the child,
\* stdin and stdout handles absent and the child killed and reaped, and
\* called again, or on a client that never spawned, it changes nothing; on
\* an http client it changes nothing.
C15_ShutdownIdempotent ==
    /\ [][C15_ShutdownLeavesNothing]_vars
    /\ [][C15_ShutdownAgainChangesNothing]_vars
    /\ [][C15_HttpShutdownNoOp]_vars

\* Two shutdowns of a stdio client that had spawned a child have both
\* returned, the second having run on the state the first one left.
C15_Witness ==
    /\ nextPid = 1 /\ alive = {} /\ request_id > 0
    /\ child = None /\ stdin = None /\ stdout = None
    /\ \A c \in Callers : pc[c] = "done" /\ op[c] = "shutdown" /\ result[c] = "Ok"

\* send_request returned Ok(value): health_check does not look at the value.
RequestSucceeded(k) == k \in {"Ok", "BadShape"}

RequestFailures ==
    {"Timeout", "ServerError", "ParseError", "ProcessSpawn", "ProcessExit",
     "ConnectionLost", "IoError", "HttpError"}

\* C16: health_check on both transports never returns an error: it sends
\* ping, returns true when the request succeeded and false on every failure.
C16_HealthCheckNeverErrs ==
    /\ \A c \in Callers :
          (pc[c] = "done" /\ op[c] = "health_check") =>
              /\ result[c] \in {"Healthy", "Unhealthy"}
              /\ RequestSucceeded(sres[c]) => result[c] = "Healthy"
              /\ sres[c] \in RequestFailures => result[c] = "Unhealthy"
              /\ sres[c] \in RequestFailures \/ RequestSucceeded(sres[c])
    /\ \A c \in Callers :
          (op[c] = "health_check" /\ pc[c] \in {"write_nl", "flush"}) =>
              (sentLog[Len(sentLog)] = reqId[c] => sentMethods[Len(sentLog)] = "ping")
    /\ (hpc = "done" /\ hop = "health_check") =>
          /\ hres \in {"Healthy", "Unhealthy"}
          /\ RequestSucceeded(hsres) => hres = "Healthy"
          /\ hsres \in RequestFailures => hres = "Unhealthy"
          /\ hsres \in RequestFailures \/ RequestSucceeded(hsres)
          /\ hsent[Len(hsent)] = "ping"

\* Two health checks of a stdio client have returned: one true, and one
\* false after the server answered with an error object.
C16_Witness ==
    \E c, d \in Callers :
        /\ pc[c] = "done" /\ op[c] = "health_check" /\ result[c] = "Healthy"
        /\ pc[d] = "done" /\ op[d] = "health_check" /\ result[d] = "Unhealthy"
        /\ sres[d] = "ServerError"

\* C18: on stdio, initialize issues notifications/initialized exactly when
\* its initialize request returned a result that parsed as
\* ServerCapabilities, after that response and before it returns; a failure
\* of the notification leaves initialize's Ok result as it is; capabilities
\* are cached only on success; on http the notification is never sent.
C18_InitializedAfterSuccessOnly ==
    /\ \A c \in Callers :
          (op[c] = "initialize" /\ stage[c] = 2 /\ pc[c] # "done") =>
              (sres[c] = "Ok" /\ result[c] = "Ok")
    /\ \A c \in Callers :
          (op[c] = "initialize" /\ pc[c] = "done") =>
              /\ result[c] = "Ok" <=> stage[c] = 2
              /\ result[c] = "Ok" => capabilities
    /\ capabilities =>
          \/ reg # "init"
          \/ \E c \in Callers :
                op[c] = "initialize" /\ pc[c] = "done" /\ result[c] = "Ok"
    /\ \A i \in 1..Len(sentMethods) :
          sentMethods[i] = "notifications/initialized" =>
              (i > 1 /\ sentMethods[i - 1] = "initialize")
    /\ \A i \in 1..Len(hsent) : hsent[i] # "notifications/initialized"
    /\ hcaps => \E i \in 1..Len(hsent) : hsent[i] = "initialize"
    /\ (hpc = "done" /\ hop = "initialize") => (hres = "Ok" => hcaps)

\* initialize has returned Ok on stdio with the capabilities cached although
\* the notification it wrote ended in a timeout.
C18_Witness ==
    \E c \in Callers :
        /\ op[c] = "initialize" /\ pc[c] = "done" /\ result[c] = "Ok"
        /\ sres[c] = "Timeout" /\ capabilities
        /\ sentMethods = << "initialize", "notifications/initialized" >>

\* C19: notifications/initialized is fire-and-forget on stdio: the client
\* neither waits for nor reads a line of the child's stdout on its behalf.
C19_NotificationFireAndForget ==
    \A c \in Callers :
        (op[c] = "initialize" /\ stage[c] = 2) =>
            (pc[c] \notin {"read", "reading"} /\ consumed[c] = 0)

InitializeRequests ==
    Cardinality({i \in 1..Len(sentMethods) : sentMethods[i] = "initialize"})

DiscoveryMethods == {"initialize", "notifications/initialized", "tools/list"}

\* C20: in a fresh stdio session whose initialize succeeds at once,
\* initialize is sent with id 1, tools/list with id 2 and the first
\* tools/call with id 3.
C20_DiscoveryRequestIds ==
    (nextPid = 1 /\ InitializeRequests = 1 /\ sentMethods[1] = "initialize") =>
        \A i \in 1..Len(sentLog) :
            /\ sentMethods[i] = "initialize" => sentLog[i] = 1
            /\ sentMethods[i] = "tools/list" => sentLog[i] = 2
            /\ (/\ sentMethods[i] = "tools/call"
                /\ \A j \in 1..(i - 1) : sentMethods[j] \in DiscoveryMethods)
               => sentLog[i] = 3

\* The JSON-RPC response of the classified exchange, when one was read: the
\* line itself on stdio, the body of a successful POST on http.
ResponseRead ==
    \/ cvia = "stdio"
    \/ cvia = "http" /\ cresp.sent /\ cresp.success

ResponseBody == IF cvia = "http" THEN cresp.body ELSE cresp

\* C21: on both transports a response send_request has read is classified
\* in this order: text that is no JsonRpcResponse gives ParseError; a
\* non-null error gives ServerError with error.message, also when a result
\* is present; neither error nor result gives ParseError; otherwise the
\* result value is returned.
C21_ClassificationOrder ==
    ResponseRead =>
        LET r == ResponseBody
            hasError == r.error \notin {"absent", "null"}
            hasResult == r.result \notin {"absent", "null"}
        IN /\ ~r.json => cout.kind = "ParseError"
           /\ (r.json /\ hasError) =>
                  (cout.kind = "ServerError" /\ cout.message = r.error)
           /\ (r.json /\ ~hasError /\ ~hasResult) => cout.kind = "ParseError"
           /\ (r.json /\ ~hasError /\ hasResult) =>
                  (cout.kind = "Ok" /\ cout.value = r.result)

C21_Witness ==
    /\ cvia = "http" /\ cresp.sent /\ cresp.success
    /\ cresp.body.json
    /\ cresp.body.error = "denied" /\ cresp.body.result = "value"
    /\ cout.kind = "ServerError" /\ cout.message = "denied"

\* C22: when read_line of the stdio client returns at end of stream (the
\* child closed its stdout or exited, nothing left to read), send_request
\* returns ConnectionLost.
C22_EndOfStreamIsConnectionLost ==
    [][\A c \in Callers :
          (/\ pc[c] = "reading" /\ outbox = << >>
           /\ pc'[c] # "reading" /\ sres'[c] # "Timeout")
          => sres'[c] = "ConnectionLost"]_vars

\* C23: at every moment at most one child process spawned by the stdio
\* client is alive, whatever the interleaving of first requests, initialize
\* retries and shutdown followed by new requests.
C23_AtMostOneChildAlive == Cardinality(alive) <= 1

\* C24: when ensure_process_running returns ProcessSpawn or ProcessExit, the
\* client holds no child, stdin or stdout handle and no process it spawned
\* is left running.
C24_FailedSpawnLeavesNothing ==
    [][\A c \in Callers :
          (/\ pc[c] = "ensure"
           /\ sres'[c] \in {"ProcessSpawn", "ProcessExit"}
           /\ pc'[c] = "done")
          => (/\ child' = None /\ stdin' = None /\ stdout' = None
              /\ alive' \subseteq alive)]_vars

\* How often register_server did e for server i.
Times(i, e) == Cardinality({k \in 1..Len(regLog[i]) : regLog[i][k] = e})

ListCalls(i) == Times(i, "list_tools_ok") + Times(i, "list_tools_err")

\* The adapters discovery has collected for server i.
AdaptersOf(i) == SelectSeq(all_tools, LAMBDA a : a.server = i)

\* C25: during registration list_tools is called at most once per server,
\* only right after an initialize that succeeded, and never again: when it
\* fails the server is skipped whatever attempts the retry policy has left.
C25_ListToolsOnceNoRetry ==
    \A i \in 1..Len(servers) :
        /\ ListCalls(i) <= 1
        /\ \A k \in 1..Len(regLog[i]) :
              regLog[i][k] \in {"list_tools_ok", "list_tools_err"} =>
                  (k > 1 /\ regLog[i][k - 1] = "initialize_ok")
        /\ Times(i, "list_tools_err") = 1 =>
              (/\ regOutcome[i] = "ListFailed"
               /\ di > i
               /\ AdaptersOf(i) = << >>)

C25_Witness ==
    /\ dpc = "done" /\ Len(servers) = 2
    /\ servers[1].max_attempts = MaxAttempts /\ initCalls[1] = 1
    /\ regOutcome[1] = "ListFailed" /\ ListCalls(1) = 1
    /\ regOutcome[2] = "Ok"

\* C26: for each registered server exactly one client was constructed, and
\* discovery holds exactly one adapter per definition the server listed, in
\* order, each referencing that client; adapters of different servers never
\* share a client; a server that lists no tools is registered with no
\* adapters.
C26_OneClientOneAdapterPerTool ==
    /\ \A i \in 1..Len(servers) :
          regOutcome[i] = "Ok" =>
              /\ Times(i, "new") = 1
              /\ Len(AdaptersOf(i)) = Len(regTools[i])
              /\ \A k \in 1..Len(regTools[i]) :
                    /\ AdaptersOf(i)[k].tool = regTools[i][k]
                    /\ AdaptersOf(i)[k].client = AdaptersOf(i)[1].client
    /\ \A a, b \in 1..Len(all_tools) :
          all_tools[a].server # all_tools[b].server
              => all_tools[a].client # all_tools[b].client

C26_Witness ==
    /\ dpc = "done" /\ Len(servers) = 2
    /\ regOutcome[1] = "Ok" /\ Len(regTools[1]) = 2
    /\ regOutcome[2] = "Ok" /\ regTools[2] = << >>
    /\ Len(all_tools) = 2

\* C27: when the secret store fails to decrypt the auth_token of an http
\* server, register_server returns InitializationFailed with server
\* "secret": no client was constructed, no request sent, nothing retried,
\* and the server is skipped. A server without auth_token never calls the
\* secret store.
C27_SecretFailureSkipsServer ==
    \A i \in 1..Len(servers) :
        /\ Times(i, "decrypt") <= 1
        /\ (Times(i, "decrypt") = 1 /\ Times(i, "new") = 0 /\ di > i) =>
              (/\ regOutcome[i] = "InitializationFailed{secret}"
               /\ regLog[i] = << "decrypt" >>
               /\ initCalls[i] = 0
               /\ AdaptersOf(i) = << >>)
        /\ regOutcome[i] = "InitializationFailed{secret}" =>
              (/\ servers[i].transport = "http" /\ servers[i].auth
               /\ regLog[i] = << "decrypt" >>)
        /\ ~servers[i].auth => Times(i, "decrypt") = 0

C27_Witness ==
    /\ dpc = "done" /\ Len(servers) = 2
    /\ servers[1].transport = "http" /\ servers[1].auth
    /\ servers[1].max_attempts = MaxAttempts
    /\ regOutcome[1] = "InitializationFailed{secret}"
    /\ regLog[1] = << "decrypt" >>
    /\ servers[2].transport = "http" /\ ~servers[2].auth
    /\ regOutcome[2] = "Ok"

\* C28: with timeout_secs = 0 a send_request of the stdio client returns
\* Timeout also when its read finds a line already on the child's stdout.
C28_ZeroTimeoutYieldsTimeout ==
    [][\A c \in Callers :
          (/\ timeout_secs = 0
           /\ pc[c] = "reading" /\ outbox # << >>
           /\ pc'[c] # "reading")
          => sres'[c] = "Timeout"]_vars

Distinct(list) ==
    \A j, k \in 1..Len(list) : j # k => list[j] # list[k]

\* C29: add and remove keep the server names pairwise distinct:
\* cmd_add_server with a name the configuration has fails and leaves the
\* list as it was, and an add that succeeds appends exactly one server,
\* which carries the given name, also when it comes from an import file.
C29_AddKeepsNamesDistinct ==
    /\ (cmd.op \in {"add", "remove"} /\ cmd_ret = "Ok") =>
          (Distinct(servers_before) => Distinct(mcp_servers))
    /\ cmd.op = "add" =>
          IF cmd.name \in NamesOf(servers_before)
          THEN cmd_ret = "Err" /\ mcp_servers = servers_before
          ELSE cmd_ret = "Ok" =>
                  mcp_servers = Append(servers_before, cmd.name)

\* The servers the sources of an import yielded, in the order they came.
RECURSIVE ImportedNames(_)
ImportedNames(sources) ==
    IF sources = << >>
    THEN << >>
    ELSE (IF Head(sources).state = "ok" THEN Head(sources).names ELSE << >>)
            \o ImportedNames(Tail(sources))

\* The name the importer is to store a server under.
RenamedOnConflict(list, name) ==
    IF name \in NamesOf(list) THEN name \o "_imported" ELSE name

\* C30: import_external_mcp_configs stores every server it imports, and one
\* whose name the configuration already has under "<name>_imported".
C30_ImportRenamesConflicts ==
    (cmd.op = "import" /\ cmd_ret = "Ok") =>
        LET imported == ImportedNames(cmd.sources)
            n == Len(servers_before)
        IN /\ Len(mcp_servers) = n + Len(imported)
           /\ \A k \in 1..Len(imported) :
                 mcp_servers[n + k] =
                     RenamedOnConflict(SubSeq(mcp_servers, 1, n + k - 1),
                                       imported[k])

\* The calls of the running execute to c, as positions of xlog.
CallsTo(c) == {k \in 1..Len(xlog) : xlog[k].call = c}

\* call_tool has returned a ToolResult to the running execute.
GotToolResult ==
    \E k \in CallsTo("call_tool") : xpc = "done" /\ xlog[k].ret.kind = "Ok"

\* C31: in every result execute returns, error is absent exactly when
\* success is true, and output is empty on every path on which call_tool
\* did not return a ToolResult.
C31_ErrorIffNotSuccess ==
    xpc = "done" =>
        /\ xret.tag = "Ok"
        /\ xret.error.some <=> ~xret.success
        /\ ~GotToolResult => (xret.output = "" /\ ~xret.success)

C31_Witness ==
    /\ xpc = "done" /\ GotToolResult
    /\ xlog[Len(xlog)].ret.is_error /\ Len(xlog[Len(xlog)].ret.content) = 2
    /\ ~xret.success /\ xret.error.some /\ xret.output # ""

\* C32: record_action is called exactly once in an execute that passed the
\* rate check and the policy check and never in one that was rate limited
\* or denied; after it execute calls nothing but call_tool, whatever
\* call_tool returns, so no path undoes the recorded action.
C32_RecordActionOnceNoRefund ==
    /\ Cardinality(CallsTo("record_action")) <= 1
    /\ \A k \in CallsTo("record_action") :
          /\ k = 3
          /\ xlog[1].call = "is_rate_limited" /\ xlog[1].ret = "false"
          /\ xlog[2].call = "enforce_tool_operation" /\ xlog[2].ret = "Ok"
          /\ \A j \in (k + 1)..Len(xlog) : xlog[j].call = "call_tool"
    /\ xpc \in {"call", "await", "done"} =>
          (CallsTo("record_action") # {}
              <=> (/\ Len(xlog) >= 2
                   /\ xlog[1].ret = "false" /\ xlog[2].ret = "Ok"))

C32_Witness ==
    /\ xpc = "done"
    /\ CallsTo("record_action") = {3} /\ CallsTo("call_tool") = {4}
    /\ xlog[4].ret.kind = "Timeout"
    /\ ~xret.success

C34_IdsNeverReused ==
    /\ \A j, k \in 1..Len(assignedIds) :
          j < k => assignedIds[j] < assignedIds[k]
    /\ \A k \in 1..Len(assignedIds) : assignedIds[k] <= request_id
    /\ \A c \in Callers : reqId[c] <= request_id

\* Five ids taken on a client that was shut down and has respawned; one of
\* them was never written.
C34_Witness ==
    /\ Len(assignedIds) = MaxRequestId
    /\ nextPid = 2 /\ session = 2 /\ child = 2
    /\ Len(sentLog) < Len(assignedIds)
    /\ \E c \in Callers : sres[c] = "IoError"
    /\ \E c \in Callers : pc[c] = "read" /\ reqId[c] = MaxRequestId

\* A task in the write half of send_request, the spawn check behind it.
Writing(c) == pc[c] \in {"lock_stdin", "write_bytes", "write_nl"}

\* C35 as claimed: a request that had passed the spawn check when shutdown
\* took and killed the child returns ConnectionLost.
C35_PastCheckReturnsConnectionLost ==
    [][\A c \in Callers :
          (Writing(c) /\ child = None /\ pc'[c] = "done")
          => sres'[c] = "ConnectionLost"]_vars

\* C35, amended: after shutdown the next request spawns a process that was
\* not running before and writes to it. A request that had passed the
\* spawn check returns ConnectionLost without writing when it finds the
\* stdin handle cleared, and IoError when it got the stdin lock after
\* shutdown killed the child and before shutdown cleared the handle; no
\* line of it is written to the dead child.
C35_ShutdownThenRespawnOrError ==
    /\ [][\A c \in Callers :
             (pc[c] = "ensure" /\ child = None /\ pc'[c] = "ens_stdin")
             => (/\ child' \notin alive /\ child' \in alive'
                 /\ session' = child')]_vars
    /\ [][\A c \in Callers :
             (pc[c] = "lock_stdin" /\ stdin = None /\ pc'[c] # "lock_stdin")
             => (sres'[c] = "ConnectionLost" /\ sentLog' = sentLog)]_vars
    /\ [][\A c \in Callers :
             (/\ pc[c] \in {"write_bytes", "write_nl"}
              /\ stdin \notin alive /\ pc'[c] # pc[c])
             => (/\ sres'[c] = "IoError"
                 /\ sentLog' = sentLog /\ pending' = pending)]_vars
    /\ [][\A c \in Callers :
             (pc[c] = "write_bytes" /\ pc'[c] = "write_nl")
             => (stdin \in alive /\ stdin = session)]_vars

\* Task 1's request passed the spawn check, task 2's shutdown killed the
\* child, the write failed; the request after that is written to a new
\* child.
C35_Witness ==
    /\ nextPid = 2 /\ child = 2 /\ alive = {2}
    /\ \E c \in Callers : pc[c] = "read" /\ op[c] = "call_tool"
    /\ \E c \in Callers : op[c] = "health_check" /\ sres[c] = "IoError"

\* The client holds the handle of a child that has exited on its own.
StaleChild == child # None /\ child \notin alive

\* A task in send_request that has not written a byte of its request.
BeforeWrite(c) ==
    pc[c] \in {"ensure", "assign_id", "lock_stdin", "write_bytes"}

\* C36: while the client holds the handles of a child that has exited on
\* its own, no request spawns a process, the handles stay until a shutdown
\* takes them (or the client is dropped), and every request that had not
\* yet written returns an error without a line of it being written.
C36_StaleChildNeverRespawned ==
    /\ [][StaleChild => nextPid' = nextPid /\ alive' = alive]_vars
    /\ [][(StaleChild /\ child' # child) =>
             (/\ child' = None
              /\ dropped' \/ \E c \in Callers : op[c] = "shutdown")]_vars
    /\ [][\A c \in Callers :
             (StaleChild /\ BeforeWrite(c) /\ stdin = child
                 /\ ~BeforeWrite(c)')
             => (/\ pc'[c] = "done" /\ sres'[c] = "IoError"
                 /\ sentLog' = sentLog)]_vars

C36_Witness ==
    /\ child = 1 /\ stdin = 1 /\ stdout = 1 /\ alive = {} /\ nextPid = 1
    /\ reg = "shared"
    /\ \E c \in Callers :
          /\ op[c] = "call_tool" /\ pc[c] = "done" /\ sres[c] = "IoError"
          /\ reqId[c] = MaxRequestId

\* A task between the first byte of its request line and the drop of the
\* stdin guard.
InsideLine(c) == pc[c] \in {"write_nl", "flush"}

\* C37: request lines of concurrent callers never interleave on the
\* child's stdin: every byte is written by the task that holds the stdin
\* guard, at most one request is on the stdin before its newline, no line
\* the child receives is made of more than one request, and from the bytes
\* of a request to the drop of the guard no other task writes.
C37_RequestLinesNeverInterleave ==
    /\ [](~garbled /\ Len(partial) <= 1)
    /\ [](\A c \in Callers :
            (pc[c] \in {"write_bytes", "write_nl", "flush"}) => stdinLock = c)
    /\ [][\A c \in Callers :
             (InsideLine(c) /\ sentLog' # sentLog) => pc'[c] # pc[c]]_vars
    /\ [][\A c \in Callers :
             (pc[c] = "write_nl" /\ pc'[c] = "flush")
             => (partial = << reqId[c] >> /\ pending' = pending \cup {reqId[c]})]_vars

C37_Witness ==
    \E c, d \in Callers :
        /\ c # d /\ pc[c] = "flush" /\ pc[d] = "lock_stdin"
        /\ op[c] = "call_tool" /\ op[d] = "call_tool"
        /\ stdin \in alive /\ reqId[d] < reqId[c]
        /\ reqId[c] \in pending /\ partial = << >>

\* C39: whenever no operation holds the child lock, the child handle, the
\* stdin handle and the stdout reader are all present or all absent, and
\* the streams present are those of the child in the child handle.
C39_HandlesAgreeWhenUnlocked ==
    childLock = Free =>
        /\ (child = None) <=> (stdin = None)
        /\ (stdin = None) <=> (stdout = None)
        /\ stdin = child /\ stdout = child

C39_Witness ==
    /\ childLock = Free /\ ~dropped
    /\ child = MaxPid /\ stdin = MaxPid /\ stdout = MaxPid
    /\ \E c \in Callers :
          op[c] = "shutdown" /\ pc[c] = "done" /\ result[c] = "Ok"

\* The names of the tools in a list of adapters, in the order of the list.
NamesInOrder(ads) == [k \in 1..Len(ads) |-> ads[k].tool]

\* register_server has started for server j, has returned for server j.
RegStarted(j) == regLog[j] # << >> \/ regOutcome[j] # "none"
RegFinished(j) == regOutcome[j] # "none"

\* C38: the adapter list of discover_tools is ordered: the servers appear
\* in the order of config.servers with the adapters of one server next to
\* each other, the adapters of a server follow the order of its tools/list
\* result, the list only grows at its end, and the servers are registered
\* one after the other: a server's registration starts only when that of
\* every server before it has returned, and does nothing after it returned.
C38_AdaptersOrderedServersSequential ==
    /\ [](\A a, b \in 1..Len(all_tools) :
            a < b => all_tools[a].server <= all_tools[b].server)
    /\ [](\A i \in 1..Len(servers) :
            NamesInOrder(AdaptersOf(i)) = regTools[i])
    /\ [][/\ Len(all_tools') > Len(all_tools)
          /\ SubSeq(all_tools', 1, Len(all_tools)) = all_tools
          /\ \A k \in (Len(all_tools) + 1)..Len(all_tools') :
                all_tools'[k].server = di]_all_tools
    /\ [](\A j \in 1..Len(servers) :
            RegStarted(j) => (j <= di /\ \A i \in 1..(j - 1) : RegFinished(i)))
    /\ [][\A j \in 1..Len(servers) :
             (regLog'[j] # regLog[j] \/ regOutcome'[j] # regOutcome[j])
             => (j = di /\ ~RegFinished(j))]_vars

C38_Witness ==
    /\ dpc = "done" /\ dret = "Ok" /\ Len(servers) = MaxServers
    /\ \A i \in 1..MaxServers : Len(regTools[i]) = MaxTools
    /\ Len(all_tools) = MaxServers * MaxTools
    /\ servers[1].transport = "http" /\ servers[2].transport = "stdio"

=============================================================================
